---- MODULE Spec2Model ----
(***************************************************************************)
(* IsoFlicker: the isochronic tone engine.                                 *)
(*                                                                         *)
(* The module holds one state machine per component of the engine, each    *)
(* with its own specification over the shared variables:                   *)
(*   CurveSpec    the automation curve and the operations that edit it     *)
(*                (Curve / TrackCurve, CurveEditor, SinePreset.set_duration,*)
(*                save_to_file / load_from_file)                           *)
(*   CacheSpec    IsochronicToneGenerator.generate_tone_segment and its    *)
(*                segment cache                                            *)
(*   RenderSpec   the chunked render SinePreset.generate_audio             *)
(*   SegmentSpec  IsochronicPresetGenerator.generate_from_preset and the   *)
(*                segment sweep of generate_advanced_isochronic            *)
(*   CallerSpec   CacheSpec with a caller that writes to returned buffers  *)
(*   PresetFileSpec  CurveSpec with preset files opened from disk          *)
(*   MixSpec      IsochronicToneGenerator.mix_with_background              *)
(*   FinishSpec   the fades and the normalisation that end generate_audio  *)
(*   SignalSpec   generate_carrier, generate_modulation and                *)
(*                generate_tone_segment, sample by sample                  *)
(*   TransitionSpec  generate_frequency_transition                         *)
(*   UndoSpec     ModernMainWindow: edits, save_state_for_undo, undo, redo *)
(*   ConstantSpec generate_audio on a preset with constant curves, sample  *)
(*                by sample                                                *)
(*   ThreadSpec   two callers inside generate_tone_segment on one          *)
(*                generator, statement by statement                        *)
(*   LoadSpec     save_to_file / load_from_file of sine_editor_with_xml    *)
(* Numbers: times are whole ticks (TicksPerSecond to the second), values   *)
(* are exact rationals <<numerator, denominator>> in lowest terms.  The    *)
(* default and minimum duration of 180 s is scaled down to                 *)
(* DEFAULT_DURATION ticks, so that a render has a few chunks.  A buffer of *)
(* samples is held as the parameters that determine its samples.           *)
(***************************************************************************)
EXTENDS Integers, Sequences, FiniteSets, TLC

\* ------------------------------------------------------------------------
\* Bounds of the model
\* ------------------------------------------------------------------------
\* DEFAULT_DURATION and the minimum duration of a preset, in ticks (180 s in
\* the source)
DEFAULT_DURATION == 6
\* the largest time, in ticks, an edit is made at (besides the default end)
MaxTime == 3
\* the largest number of control points an edit may grow a curve to
MaxPoints == 3
\* the values a control point is given are MinValue .. MaxValue
MaxValue == 2
\* the largest number of distinct parameter tuples one generator is asked for
MaxKeys == 2
\* the number of different outcomes np.random.normal has for one noise buffer
NoiseDraws == 2
\* the largest number of segments of an IsochronicPreset
MaxSegments == 2

\* ------------------------------------------------------------------------
\* Exact rational arithmetic
\* ------------------------------------------------------------------------
Abs(x) == IF x < 0 THEN -x ELSE x

Min(S) == CHOOSE x \in S : \A y \in S : x <= y

Max(S) == CHOOSE x \in S : \A y \in S : x >= y

RECURSIVE Gcd(_, _)
Gcd(a, b) == IF b = 0 THEN a ELSE Gcd(b, a % b)

\* n/d in lowest terms with a positive denominator
Rat(n, d) ==
    LET s == IF d < 0 THEN -1 ELSE 1
        g == Gcd(Abs(n), Abs(d))
    IN  <<(s * n) \div g, (s * d) \div g>>

R(n) == <<n, 1>>

RAdd(a, b) == Rat(a[1] * b[2] + b[1] * a[2], a[2] * b[2])

RSub(a, b) == Rat(a[1] * b[2] - b[1] * a[2], a[2] * b[2])

RMul(a, b) == Rat(a[1] * b[1], a[2] * b[2])

RLt(a, b) == a[1] * b[2] < b[1] * a[2]

RLe(a, b) == a[1] * b[2] <= b[1] * a[2]

Max2R(a, b) == IF RLt(a, b) THEN b ELSE a

Min2R(a, b) == IF RLt(b, a) THEN b ELSE a

\* int(x) of a rational: rounds toward zero
Trunc(a) == IF a[1] >= 0 THEN a[1] \div a[2] ELSE -((-a[1]) \div a[2])

\* ------------------------------------------------------------------------
\* State
\* ------------------------------------------------------------------------
VARIABLES
    impl,       \* which of the three curve implementations is in use
    points,     \* Curve.control_points: sequence of [time, value]
    file,       \* <<the points written by save_to_file>>, or NoFile
    lastOp,     \* the operation that acted last
    cache,      \* IsochronicToneGenerator._cache: parameter tuple -> buffer
    sampleRate, \* IsochronicToneGenerator.sample_rate
    result,     \* what the last call of the generator returned or raised
    requested,  \* the parameter tuples generate_tone_segment was called with
    preset,     \* the SinePreset being rendered
    rate,       \* generate_audio's sample_rate argument
    pc,         \* where generate_audio is: "idle", "loop", "done", "raised"
    idx,        \* the chunk loop's index i
    total,      \* generate_audio's duration, in ticks
    chunks,     \* the slices of generate_audio's output written so far
    reads,      \* the get_value_at_time calls of the render so far
    audio,      \* what generate_audio returned or raised
    first,      \* what the previous generate_audio returned or raised
    pos,        \* generate_from_preset's current_pos
    args,       \* the arguments of a direct call of a signal function
    ret,        \* what the direct call returned or raised
    settings,   \* ModernMainWindow: the paths, widgets' values and batch files
    undo_stack, \* ModernMainWindow.undo_stack
    redo_stack, \* ModernMainWindow.redo_stack
    undo_btn,   \* whether undo_btn is enabled
    redo_btn,   \* whether redo_btn is enabled
    threads     \* the callers inside generate_tone_segment: position and locals

curveVars == <<points, file>>

genVars == <<cache, sampleRate, result, requested>>

renderVars == <<preset, rate, pc, idx, total, chunks, reads, audio, first>>

segVars == <<pos>>

callVars == <<args, ret>>

uiVars == <<settings, undo_stack, redo_stack, undo_btn, redo_btn>>

threadVars == <<threads>>

\* the variables the curve operations leave alone
nonCurveVars == <<genVars, renderVars, segVars, callVars, uiVars, threadVars>>

\* the variables the generator leaves alone
nonGenVars == <<curveVars, renderVars, segVars, callVars, uiVars, threadVars>>

\* the variables a render leaves alone
nonRenderVars == <<curveVars, segVars, callVars, uiVars, threadVars>>

\* the variables generate_from_preset leaves alone
nonSegVars == <<curveVars, genVars, reads, first, callVars, uiVars, threadVars>>

vars == <<impl, lastOp, curveVars, genVars, renderVars, segVars, callVars, uiVars, threadVars>>

\* the time axis: ticks per second (a tick is 5 ms)
TicksPerSecond == 200

\* no file written: the file system holds a sequence of at most one file
NoFile == <<>>

\* no curve is being edited
CurveIdle == points = <<>> /\ file = NoFile

\* a call returns a value, held as a one-element sequence, or raises
Ok(x) == [err |-> "none", val |-> <<x>>]

Raise(e) == [err |-> e, val |-> <<>>]

NoResult == Raise("no call")

\* no signal function is called directly
NoCall == args = <<>> /\ ret = NoResult

\* no caller is inside a call of the generator that is modelled step by step
NoThreads == threads = <<>>

\* no main window is open
NoWindow ==
    /\ settings = <<>>
    /\ undo_stack = <<>>
    /\ redo_stack = <<>>
    /\ undo_btn = FALSE
    /\ redo_btn = FALSE

\* self._cache = {}
EmptyCache == [k \in {} |-> <<>>]

\* IsochronicToneGenerator.__init__(sample_rate=44100)
NewGenerator ==
    /\ cache = EmptyCache
    /\ sampleRate = 44100
    /\ result = NoResult
    /\ requested = {}

\* no preset is being rendered
RenderIdle ==
    /\ preset = <<>>
    /\ rate = 0
    /\ pc = "idle"
    /\ idx = 0
    /\ total = 0
    /\ chunks = <<>>
    /\ reads = <<>>
    /\ audio = NoResult
    /\ first = NoResult
    /\ pos = 0

\* ------------------------------------------------------------------------
\* Tone generator and its segment cache
\* ------------------------------------------------------------------------
\* WaveformType
WaveformType == {"sine", "square", "triangle", "sawtooth", "noise"}

\* ModulationType
ModulationType == {"square", "sine", "trapezoid", "gaussian"}

\* scipy.signal.filtfilt(b, a, noise) of the order-4 band-pass filter needs
\* more than padlen = 3 * max(len(a), len(b)) = 27 samples
PadLen == 27

\* a carrier louder than full scale: amplitude 1.25 in place of 0.8
Overdriven == Rat(5, 4)

\* the amplitude generate_tone_segment gives the carrier: 0.8
CarrierAmplitude == Rat(4, 5)

\* IsochronicToneGenerator.generate_carrier; draw is the outcome of
\* np.random.normal, read by the noise carrier only
generate_carrier(sr, waveform_type, frequency, duration, amplitude, draw) ==
    LET num_samples == Trunc(RMul(R(sr), duration))
        low == Max2R(Rat(1, 100), RMul(RSub(frequency, R(20)), Rat(2, sr)))
        high == Min2R(Rat(99, 100), RMul(RAdd(frequency, R(20)), Rat(2, sr)))
    IN  IF num_samples < 0 THEN Raise("ValueError")
        ELSE IF waveform_type = "noise"
        THEN IF ~ RLt(low, high) THEN Raise("ValueError")
             ELSE IF num_samples <= PadLen THEN Raise("ValueError")
             ELSE Ok([waveform |-> "noise", frequency |-> frequency,
                      amplitude |-> amplitude, n |-> num_samples, noise |-> draw])
        ELSE Ok([waveform |-> IF waveform_type \in WaveformType
                              THEN waveform_type ELSE "sine",
                 frequency |-> frequency, amplitude |-> amplitude,
                 n |-> num_samples, noise |-> 0])

\* IsochronicToneGenerator.generate_modulation
generate_modulation(sr, mod_type, frequency, duration, duty_cycle) ==
    LET num_samples == Trunc(RMul(R(sr), duration))
        period_samples == Trunc(RMul(R(sr), Rat(frequency[2], frequency[1])))
        envelope == [modulation |-> IF mod_type \in ModulationType
                                    THEN mod_type ELSE "square",
                     frequency |-> frequency,
                     duty_cycle |-> IF mod_type \in ModulationType
                                    THEN duty_cycle ELSE Rat(1, 2),
                     n |-> num_samples]
    IN  IF num_samples < 0 THEN Raise("ValueError")
        ELSE IF mod_type \in {"trapezoid", "gaussian"}
        THEN IF frequency[1] = 0 THEN Raise("ZeroDivisionError")
             ELSE IF period_samples = 0 THEN Raise("ValueError")
             ELSE IF /\ mod_type = "gaussian"
                     /\ duty_cycle[1] = 0
                     /\ period_samples > 0
                     /\ num_samples > 0
             THEN Raise("ZeroDivisionError")
             ELSE Ok(envelope)
        ELSE Ok(envelope)

\* IsochronicToneGenerator._get_cache_key
get_cache_key(duration, carrier_freq, entrainment_freq, volume, sample_rate, carrier_type, modulation_type, duty_cycle) ==
    [duration |-> duration, carrier_freq |-> carrier_freq,
     entrainment_freq |-> entrainment_freq, volume |-> volume,
     sample_rate |-> sample_rate, carrier_type |-> carrier_type,
     modulation_type |-> modulation_type, duty_cycle |-> duty_cycle]

\* IsochronicToneGenerator.generate_tone_segment on a cache miss: what it
\* computes from the parameters of key
tone_segment(key, draw) ==
    LET carrier == generate_carrier(key.sample_rate, key.carrier_type,
                                    key.carrier_freq, key.duration,
                                    CarrierAmplitude, draw)
        modulation == generate_modulation(key.sample_rate, key.modulation_type,
                                          key.entrainment_freq, key.duration,
                                          key.duty_cycle)
    IN  IF carrier.err # "none" THEN carrier
        ELSE IF modulation.err # "none" THEN modulation
        ELSE Ok([carrier |-> carrier.val[1], modulation |-> modulation.val[1],
                 volume |-> key.volume])

\* the state of the generator after generate_tone_segment(key): the cache,
\* self.sample_rate and what the call returns or raises
generate_tone_segment(c, sr, key, draw) ==
    IF key \in DOMAIN c
    THEN [cache |-> c, sample_rate |-> sr, out |-> Ok(c[key])]
    ELSE LET output == tone_segment(key, draw)
         IN  [cache |-> IF output.err = "none"
                        THEN [k \in DOMAIN c \cup {key} |->
                                 IF k = key THEN output.val[1] ELSE c[k]]
                        ELSE c,
              sample_rate |-> key.sample_rate,
              out |-> output]

Durations == {R(-1), R(0), R(1)}

CarrierFreqs == {R(5)}

EntrainmentFreqs == {R(0), R(2)}

Volumes == {Rat(1, 2)}

SampleRates == {30, 40}

CarrierTypes == {"sine", "noise"}

ModulationTypes == {"square", "trapezoid", "gaussian"}

DutyCycles == {Rat(1, 2)}

\* the parameter tuples the generator is called with
Keys ==
    {get_cache_key(d, cf, ef, v, sr, ct, mt, dc) :
        d \in Durations, cf \in CarrierFreqs, ef \in EntrainmentFreqs,
        v \in Volumes, sr \in SampleRates, ct \in CarrierTypes,
        mt \in ModulationTypes, dc \in DutyCycles}

CacheInit ==
    /\ impl = "integrated"
    /\ lastOp = "init"
    /\ CurveIdle
    /\ NewGenerator
    /\ NoCall
    /\ NoWindow
    /\ NoThreads
    /\ RenderIdle

\* a caller calls generate_tone_segment with the parameters of key
GenerateToneSegment ==
    \E key \in Keys, draw \in 1 .. NoiseDraws :
        /\ key \in requested \/ Cardinality(requested) < MaxKeys
        /\ LET after == generate_tone_segment(cache, sampleRate, key, draw)
           IN  /\ cache' = after.cache
               /\ sampleRate' = after.sample_rate
               /\ result' = after.out
        /\ requested' = requested \cup {key}
        /\ lastOp' = "generate_tone_segment"
        /\ UNCHANGED <<impl, nonGenVars>>

CacheNext == GenerateToneSegment

CacheSpec == CacheInit /\ [][CacheNext]_vars

\* the gains a caller scales a returned buffer by, in place (buffer *= gain)
Gains == {Rat(1, 2)}

\* the samples of output = carrier * modulation * volume after the holder of
\* the array multiplies it by gain in place
scale_in_place(buffer, gain) == [buffer EXCEPT !.volume = RMul(@, gain)]

\* generate_tone_segment returns the array object the cache holds (return
\* self._cache[cache_key] on a hit, return output on a miss, no copy and the
\* array left writeable): a caller that was returned the buffer of key writes
\* to it, and the write is to the cache's entry
\* (here each buffer is written to at most once, and only if it has samples)
WriteReturned ==
    \E key \in DOMAIN cache, gain \in Gains :
        /\ cache[key].carrier.n > 0
        /\ cache[key].volume = key.volume
        /\ cache' = [cache EXCEPT ![key] = scale_in_place(@, gain)]
        /\ lastOp' = "write"
        /\ UNCHANGED <<impl, sampleRate, result, requested, nonGenVars>>

CallerNext ==
    \/ GenerateToneSegment
    \/ WriteReturned

\* the generator together with a caller that writes to the buffers it got
CallerSpec == CacheInit /\ [][CallerNext]_vars

\* ------------------------------------------------------------------------
\* Automation curve
\* ------------------------------------------------------------------------
MinValue == 1

Values == MinValue .. MaxValue

\* Curve.default_value
DefaultValue == R(MinValue)

Times == (0 .. MaxTime) \cup {DEFAULT_DURATION}

Impls == {"integrated", "xml", "sine_editor"}

ControlPoint(t, v) == [time |-> t, value |-> v]

\* abs(point.time - time) < 0.01, times in ticks
Near(t1, t2) == Abs(t1 - t2) * 100 < TicksPerSecond

\* list.sort(key=lambda p: p.time): stable, ascending by time
RECURSIVE SortByTime(_)
SortByTime(s) ==
    IF Len(s) <= 1 THEN s
    ELSE LET init == SortByTime(SubSeq(s, 1, Len(s) - 1))
             p == s[Len(s)]
             k == Cardinality({i \in 1 .. Len(init) : init[i].time <= p.time})
         IN  SubSeq(init, 1, k) \o <<p>> \o SubSeq(init, k + 1, Len(init))

\* Curve.add_point / TrackCurve.add_point
add_point(pts, t, v) ==
    LET near == {i \in 1 .. Len(pts) : Near(pts[i].time, t)}
    IN  IF near # {}
        THEN [pts EXCEPT ![Min(near)].value = v]
        ELSE SortByTime(Append(pts, ControlPoint(t, v)))

\* Curve.get_value_at_time / TrackCurve.get_value_at_time
get_value_at_time(pts, t) ==
    IF pts = <<>> THEN DefaultValue
    ELSE IF t <= pts[1].time THEN pts[1].value
    ELSE IF t >= pts[Len(pts)].time THEN pts[Len(pts)].value
    ELSE LET hit == {i \in 1 .. Len(pts) - 1 :
                        pts[i].time <= t /\ t <= pts[i + 1].time}
         IN  IF hit = {} THEN DefaultValue
             ELSE LET p1 == pts[Min(hit)]
                      p2 == pts[Min(hit) + 1]
                  IN  IF p2.time = p1.time THEN "ZeroDivisionError"
                      ELSE RAdd(p1.value,
                                RMul(Rat(t - p1.time, p2.time - p1.time),
                                     RSub(p2.value, p1.value)))

\* Curve.get_duration / TrackCurve.get_duration (an empty curve: 180 s in
\* integrated_isoflicker and sine_editor_with_xml, 0 in sine_editor)
get_duration(pts, im) ==
    IF pts = <<>> THEN (IF im = "sine_editor" THEN 0 ELSE DEFAULT_DURATION)
    ELSE pts[Len(pts)].time

\* max(self.min_value, min(self.max_value, value))
Clamp(v) == IF v < MinValue THEN MinValue ELSE IF v > MaxValue THEN MaxValue ELSE v

\* Curve.__init__ / TrackCurve.__init__
NewCurve(im) ==
    IF im = "sine_editor"
    THEN add_point(<<>>, 0, DefaultValue)
    ELSE add_point(add_point(<<>>, 0, DefaultValue), DEFAULT_DURATION, DefaultValue)

CurveInit ==
    /\ impl \in Impls
    /\ points = NewCurve(impl)
    /\ file = NoFile
    /\ lastOp = "init"
    /\ NewGenerator
    /\ NoCall
    /\ NoWindow
    /\ NoThreads
    /\ RenderIdle

\* TrackCurve.remove_point of sine_editor_with_xml: the point at index i
remove_point_xml(pts, i) ==
    IF Len(pts) > 2 /\ i # 1 /\ i # Len(pts)
    THEN SubSeq(pts, 1, i - 1) \o SubSeq(pts, i + 1, Len(pts))
    ELSE pts

\* TrackCurve.remove_point of sine_editor: the point at index i
remove_point_simple(pts, i) ==
    IF Len(pts) > 1
    THEN SubSeq(pts, 1, i - 1) \o SubSeq(pts, i + 1, Len(pts))
    ELSE pts

\* CurveEditor.mouseMoveEvent of sine_editor_with_xml, dragging the point at
\* index i to the mouse position (t, v)
mouseMoveEvent_xml(pts, im, i, t, v) ==
    LET duration == Max({DEFAULT_DURATION, get_duration(pts, im)})
        moved ==
            IF i = 1 \/ i = Len(pts)
            THEN [pts EXCEPT ![i].value = R(Clamp(v))]
            ELSE [pts EXCEPT ![i].time = Max({0, Min({t, duration})}),
                             ![i].value = R(Clamp(v))]
    IN  SortByTime(moved)

\* CurveEditor.mouseMoveEvent of sine_editor
mouseMoveEvent_simple(pts, i, t, v) ==
    SortByTime([pts EXCEPT ![i].time = Max({0, t}), ![i].value = R(Clamp(v))])

\* SinePreset.set_duration of integrated_isoflicker, on one of its curves
set_duration(pts, d) ==
    LET moved ==
            IF Len(pts) < 2
            THEN add_point(IF Len(pts) = 0 THEN add_point(pts, 0, DefaultValue)
                           ELSE pts,
                           d, DefaultValue)
            ELSE [pts EXCEPT ![Len(pts)].time = d]
    IN  SortByTime(moved)

\* TrackCurve.extend_duration of sine_editor_with_xml
extend_duration(pts, d) ==
    IF pts = <<>>
    THEN add_point(add_point(pts, 0, DefaultValue), d, DefaultValue)
    ELSE LET last_point == pts[Len(pts)]
         IN  IF d > last_point.time
             THEN add_point(pts, d, last_point.value)
             ELSE IF d < last_point.time
             THEN LET kept == SelectSeq(pts, LAMBDA p : p.time <= d)
                  IN  IF ~ \E i \in 1 .. Len(kept) : Near(kept[i].time, d)
                      THEN add_point(kept, d, get_value_at_time(kept, d))
                      ELSE kept
             ELSE pts

\* SinePreset.save_to_file: the list of {"time", "value"} of one curve
save_to_file(pts) == [i \in 1 .. Len(pts) |-> [time |-> pts[i].time, value |-> pts[i].value]]

\* SinePreset.load_from_file: the default points are cleared and every point
\* of the file goes through add_point
RECURSIVE load_points(_, _)
load_points(pts, data) ==
    IF data = <<>> THEN pts
    ELSE load_points(add_point(pts, data[1].time, data[1].value), Tail(data))

load_from_file(data) == load_points(<<>>, data)

\* a click on the editor or a direct call: curve.add_point(time, value)
AddPoint ==
    /\ file = NoFile
    /\ \E t \in Times, v \in Values :
        /\ \/ Len(points) < MaxPoints
           \/ \E i \in 1 .. Len(points) : Near(points[i].time, t)
        /\ points' = add_point(points, t, R(v))
    /\ lastOp' = "add_point"
    /\ UNCHANGED <<impl, file, nonCurveVars>>

\* CurveEditor.delete_selected_point -> curve.remove_point(selected_point)
RemovePoint ==
    /\ file = NoFile
    /\ impl \in {"xml", "sine_editor"}
    /\ \E i \in 1 .. Len(points) :
        points' = IF impl = "xml" THEN remove_point_xml(points, i)
                  ELSE remove_point_simple(points, i)
    /\ lastOp' = "remove_point"
    /\ UNCHANGED <<impl, file, nonCurveVars>>

\* the editor drags the selected point (the CurveEditor of sine_editor_with_xml
\* edits the curves of integrated_isoflicker too)
DragPoint ==
    /\ file = NoFile
    /\ \E i \in 1 .. Len(points), t \in Times, v \in (MinValue - 1) .. (MaxValue + 1) :
        points' = IF impl = "sine_editor" THEN mouseMoveEvent_simple(points, i, t, v)
                  ELSE mouseMoveEvent_xml(points, impl, i, t, v)
    /\ lastOp' = "drag"
    /\ UNCHANGED <<impl, file, nonCurveVars>>

\* SinePreset.set_duration(duration) of integrated_isoflicker
SetDuration ==
    /\ file = NoFile
    /\ impl = "integrated"
    /\ \E d \in Times : points' = set_duration(points, d)
    /\ lastOp' = "set_duration"
    /\ UNCHANGED <<impl, file, nonCurveVars>>

\* SinePreset.set_duration(duration) of sine_editor_with_xml: extend_duration
ExtendDuration ==
    /\ file = NoFile
    /\ impl = "xml"
    /\ \E d \in Times :
        /\ d > get_duration(points, impl) => Len(points) < MaxPoints
        /\ points' = extend_duration(points, d)
    /\ lastOp' = "extend_duration"
    /\ UNCHANGED <<impl, file, nonCurveVars>>

\* SinePreset.save_to_file
SaveToFile ==
    /\ file = NoFile
    /\ impl = "integrated"
    /\ file' = <<save_to_file(points)>>
    /\ lastOp' = "save_to_file"
    /\ UNCHANGED <<impl, points, nonCurveVars>>

\* SinePreset.load_from_file of the file just written; the preset it returns
\* replaces the edited one
LoadFromFile ==
    /\ file # NoFile
    /\ points' = load_from_file(file[1])
    /\ file' = NoFile
    /\ lastOp' = "load_from_file"
    /\ UNCHANGED <<impl, nonCurveVars>>

CurveNext ==
    \/ AddPoint
    \/ RemovePoint
    \/ DragPoint
    \/ SetDuration
    \/ ExtendDuration
    \/ SaveToFile
    \/ LoadFromFile

CurveSpec == CurveInit /\ [][CurveNext]_vars

\* the JSON value a .sin file holds under "entrainment_points" (and likewise
\* for the other two curves): a list of {"time", "value"}, or null
PointList(items) == [kind |-> "list", items |-> items]

PresetFiles ==
    {[kind |-> "null", items |-> <<>>],
     PointList(<<>>),
     PointList(<<[time |-> 1, value |-> R(MaxValue)]>>),
     PointList(<<[time |-> MaxTime, value |-> R(MinValue)],
                 [time |-> 0, value |-> R(MaxValue)]>>)}

\* preset_converter._validate_sin: the value under each required key is a
\* list
validate_sin(data) == data.kind = "list"

\* SinePreset.load_from_file of a .sin file found on disk, whoever wrote it;
\* a file that fails the validation raises and no preset is returned; in
\* sine_editor_with_xml every load returns the default "Error Preset"
OpenPresetFile ==
    /\ file = NoFile
    /\ \E data \in PresetFiles :
        points' = IF impl = "xml" THEN NewCurve(impl)
                  ELSE IF validate_sin(data) THEN load_from_file(data.items)
                  ELSE points
    /\ lastOp' = "open_preset_file"
    /\ UNCHANGED <<impl, file, nonCurveVars>>

PresetFileNext ==
    \/ CurveNext
    \/ OpenPresetFile

\* the curve, its editor and the preset files opened from disk
PresetFileSpec == CurveInit /\ [][PresetFileNext]_vars

\* ------------------------------------------------------------------------
\* Chunked render: SinePreset.generate_audio
\* ------------------------------------------------------------------------
\* SinePreset.get_duration, in ticks
preset_duration(p, im) ==
    Max({get_duration(p.entrainment_curve, im),
         get_duration(p.volume_curve, im),
         get_duration(p.base_freq_curve, im)}
        \cup (IF im = "sine_editor" THEN {} ELSE {DEFAULT_DURATION}))

\* num_samples = int(sample_rate * duration)
num_samples(sr, dur) == Trunc(Rat(sr * dur, TicksPerSecond))

\* chunk_size = int(0.01 * sample_rate)
chunk_size(sr) == Trunc(Rat(sr, 100))

\* t[k] of t = np.linspace(0, duration, num_samples, endpoint=False), in
\* ticks; the sample rates rendered at make t[k] a whole tick at every chunk
\* start
linspace(k, dur, n) == (k * dur) \div n

\* the time of the last sample of a chunk: chunk_t[-1]
chunk_end_time(i, end_idx, dur, n) == linspace(end_idx - 1, dur, n)

\* current_time = chunk_t[0]
current_time(i, end_idx, dur, n) == linspace(i, dur, n)

\* the default duty_cycle of generate_tone_segment
DefaultDuty == Rat(1, 2)

\* SinePreset.tone_volume of sine_editor_with_xml: 0.8
ToneVolume == Rat(4, 5)

\* the chunk the generate_audio of sine_editor and of sine_editor_with_xml
\* computes itself from chunk_t
inline_chunk(im, p, base_freq, entrainment_freq, volume, len, t0) ==
    [carrier |-> [waveform |-> IF /\ im = "xml"
                                  /\ p.carrier_type \in
                                        {"sine", "square", "triangle", "sawtooth"}
                               THEN p.carrier_type ELSE "sine",
                  frequency |-> base_freq, amplitude |-> R(1),
                  n |-> len, noise |-> 0],
     modulation |-> [modulation |-> IF /\ im = "xml"
                                       /\ p.modulation_type \in
                                             {"square", "sine", "triangle"}
                                    THEN p.modulation_type ELSE "square",
                     frequency |-> entrainment_freq,
                     duty_cycle |-> DefaultDuty, n |-> len],
     volume |-> IF im = "xml" THEN RMul(volume, ToneVolume) ELSE volume,
     t0 |-> t0]

\* the slice output[i:end_idx] after its assignment
Slice(i, end_idx, samples, subsonic) ==
    [start |-> i, stop |-> end_idx, samples |-> samples, subsonic |-> subsonic]

\* one get_value_at_time call of the chunk that starts at sample i
Read(i, curve, t) == [chunk |-> i, curve |-> curve, time |-> t]

\* the array generate_audio returns
Buffer(n, slices, fade_samples, normalized) ==
    [n |-> n, chunks |-> slices, fade_samples |-> fade_samples,
     normalized |-> normalized]

\* np.array([])
EmptyBuffer == Buffer(0, <<>>, 0, FALSE)

\* a curve from (0, v0) to (t1, v1)
Line(v0, t1, v1) == add_point(add_point(<<>>, 0, R(v0)), t1, R(v1))

\* the entrainment curves rendered
RenderCurves(im) ==
    {NewCurve(im),
     Line(MinValue, DEFAULT_DURATION, MaxValue),
     Line(MinValue, DEFAULT_DURATION + 2, MaxValue),
     Line(MaxValue, 2, MinValue)}

\* the sample rates rendered at: whole multiples of TicksPerSecond, and one
\* below 100 Hz
RenderRates == {50, TicksPerSecond, 14 * TicksPerSecond}

\* SinePreset.__init__ and the edits made before the render
RenderInit ==
    /\ impl \in Impls
    /\ lastOp = "init"
    /\ CurveIdle
    /\ NewGenerator
    /\ NoCall
    /\ NoWindow
    /\ NoThreads
    /\ preset \in [entrainment_curve : RenderCurves(impl),
                   volume_curve : {NewCurve(impl)},
                   base_freq_curve : {NewCurve(impl), Line(MaxValue, 2, MinValue)},
                   carrier_type : {"sine", "noise"},
                   modulation_type : {"square"},
                   enable_subsonic : BOOLEAN]
    /\ rate \in RenderRates
    /\ pc = "idle"
    /\ idx = 0
    /\ total = 0
    /\ chunks = <<>>
    /\ reads = <<>>
    /\ audio = NoResult
    /\ first = NoResult
    /\ pos = 0

\* generate_audio up to the chunk loop: duration, the arrays, the new
\* IsochronicToneGenerator(), chunk_size and range(0, num_samples, chunk_size)
GenerateAudio ==
    /\ pc = "idle"
    /\ total' = preset_duration(preset, impl)
    /\ idx' = 0
    /\ chunks' = <<>>
    /\ reads' = <<>>
    /\ cache' = EmptyCache
    /\ sampleRate' = 44100
    /\ result' = NoResult
    /\ requested' = {}
    /\ IF total' <= 0
       THEN pc' = "done" /\ audio' = Ok(EmptyBuffer)
       ELSE IF chunk_size(rate) = 0
       THEN pc' = "raised" /\ audio' = Raise("ValueError")
       ELSE pc' = "loop" /\ audio' = NoResult
    /\ lastOp' = "generate_audio"
    /\ UNCHANGED <<impl, preset, rate, first, nonRenderVars>>

\* one pass of the chunk loop of integrated_isoflicker: the three curve
\* reads, generate_tone_segment, the subsonic mix and the slice assignment
RenderChunkGenerator ==
    /\ pc = "loop"
    /\ impl = "integrated"
    /\ idx < num_samples(rate, total)
    /\ \E draw \in 1 .. NoiseDraws :
        LET n == num_samples(rate, total)
            end_idx == Min({idx + chunk_size(rate), n})
            len == end_idx - idx
            time == current_time(idx, end_idx, total, n)
            entrainment_freq == get_value_at_time(preset.entrainment_curve, time)
            volume == get_value_at_time(preset.volume_curve, time)
            base_freq == get_value_at_time(preset.base_freq_curve, time)
            key == get_cache_key(Rat(len, rate), base_freq, entrainment_freq,
                                 volume, rate, preset.carrier_type,
                                 preset.modulation_type, DefaultDuty)
            after == generate_tone_segment(cache, sampleRate, key, draw)
            got == after.out.val[1].carrier.n
        IN  /\ reads' = reads \o <<Read(idx, "entrainment", time),
                                   Read(idx, "volume", time),
                                   Read(idx, "base_freq", time)>>
            /\ cache' = after.cache
            /\ sampleRate' = after.sample_rate
            /\ result' = after.out
            /\ requested' = requested \cup {key}
            /\ IF after.out.err # "none"
               THEN /\ pc' = "raised"
                    /\ audio' = after.out
                    /\ UNCHANGED <<idx, chunks>>
               ELSE IF \/ preset.enable_subsonic /\ got # len /\ got # 1 /\ len # 1
                       \/ got < len /\ got # 1
               THEN /\ pc' = "raised"
                    /\ audio' = Raise("ValueError")
                    /\ UNCHANGED <<idx, chunks>>
               ELSE /\ chunks' = Append(chunks,
                                    Slice(idx, end_idx,
                                          [after.out.val[1] EXCEPT
                                              !.carrier.n = len,
                                              !.modulation.n = len],
                                          preset.enable_subsonic))
                    /\ idx' = idx + chunk_size(rate)
                    /\ UNCHANGED <<pc, audio>>
    /\ lastOp' = "chunk"
    /\ UNCHANGED <<impl, preset, rate, total, first, nonRenderVars>>

\* one pass of the chunk loop of sine_editor and sine_editor_with_xml
RenderChunkInline ==
    /\ pc = "loop"
    /\ impl # "integrated"
    /\ idx < num_samples(rate, total)
    /\ LET n == num_samples(rate, total)
           end_idx == Min({idx + chunk_size(rate), n})
           time == current_time(idx, end_idx, total, n)
           entrainment_freq == get_value_at_time(preset.entrainment_curve, time)
           volume == get_value_at_time(preset.volume_curve, time)
           base_freq == get_value_at_time(preset.base_freq_curve, time)
       IN  /\ reads' = reads \o <<Read(idx, "entrainment", time),
                                  Read(idx, "volume", time),
                                  Read(idx, "base_freq", time)>>
           /\ chunks' = Append(chunks,
                           Slice(idx, end_idx,
                                 inline_chunk(impl, preset, base_freq,
                                              entrainment_freq, volume,
                                              end_idx - idx, time),
                                 impl = "xml" /\ preset.enable_subsonic))
           /\ idx' = idx + chunk_size(rate)
    /\ lastOp' = "chunk"
    /\ UNCHANGED <<impl, preset, rate, pc, total, audio, first, genVars,
                   nonRenderVars>>

\* generate_audio after the chunk loop: the fades, the normalisation (not in
\* sine_editor) and the return
FinishRender ==
    /\ pc = "loop"
    /\ idx >= num_samples(rate, total)
    /\ LET n == num_samples(rate, total)
           fade_samples == Min({chunk_size(rate), n \div 10})
       IN  IF n = 0 /\ impl # "sine_editor"
           THEN pc' = "raised" /\ audio' = Raise("ValueError")
           ELSE /\ pc' = "done"
                /\ audio' = Ok(Buffer(n, chunks, fade_samples,
                                      impl # "sine_editor"))
    /\ lastOp' = "return"
    /\ UNCHANGED <<impl, preset, rate, idx, total, chunks, reads, first,
                   genVars, nonRenderVars>>

\* the caller keeps what generate_audio gave and renders the preset again
RenderAgain ==
    /\ pc \in {"done", "raised"}
    /\ first = NoResult
    /\ first' = audio
    /\ pc' = "idle"
    /\ audio' = NoResult
    /\ lastOp' = "again"
    /\ UNCHANGED <<impl, preset, rate, idx, total, chunks, reads, genVars,
                   nonRenderVars>>

RenderNext ==
    \/ GenerateAudio
    \/ RenderChunkGenerator
    \/ RenderChunkInline
    \/ FinishRender
    \/ RenderAgain

RenderSpec == RenderInit /\ [][RenderNext]_vars

\* ------------------------------------------------------------------------
\* Segment presets: IsochronicPresetGenerator.generate_from_preset
\* ------------------------------------------------------------------------
\* the frequencies of a sweep other than linear and quadratic are held to
\* 1 / FreqResolution of a hertz, rounded down
FreqResolution == 10

RECURSIVE Pow(_, _)
Pow(x, e) == IF e = 0 THEN 1 ELSE x * Pow(x, e - 1)

\* np.linspace(a, b, n)[k], k from 0
np_linspace(a, b, n, k) ==
    IF n = 1 THEN a ELSE RAdd(a, RMul(RSub(b, a), Rat(k, n - 1)))

\* np.logspace(log10(a), log10(b), n)[k] and np.exp(np.linspace(log(a),
\* log(b), n))[k]: a * (b / a) ^ (k / (n - 1))
geometric(a, b, n, k) ==
    IF n = 1 \/ k = 0 THEN a
    ELSE IF k = n - 1 THEN b
    ELSE LET m == n - 1
             fits == {y \in 0 .. (FreqResolution * (Trunc(Max2R(a, b)) + 1)) :
                         Pow(y, m) * Pow(a[2], m - k) * Pow(b[2], k)
                            <= Pow(FreqResolution, m) * Pow(a[1], m - k) * Pow(b[1], k)}
         IN  Rat(Max(fits), FreqResolution)

\* 1 / (1 + exp(-j)) for j = 0 .. 6, in thousandths
SigmoidTable == <<500, 731, 881, 953, 982, 993, 998>>

\* 1 / (1 + np.exp(-j)) at a whole j in -6 .. 6
sigmoid_at(j) ==
    IF j >= 0 THEN Rat(SigmoidTable[j + 1], 1000)
    ELSE RSub(R(1), Rat(SigmoidTable[1 - j], 1000))

\* 1 / (1 + np.exp(-t)) at t in -6 .. 6, linear between the whole t
sigmoid(t) ==
    LET u == RAdd(t, R(6))
        j == (u[1] \div u[2]) - 6
    IN  IF j >= 6 THEN sigmoid_at(6)
        ELSE RAdd(sigmoid_at(j),
                  RMul(RSub(t, R(j)), RSub(sigmoid_at(j + 1), sigmoid_at(j))))

\* IsochronicToneGenerator.generate_frequency_transition (Backup)
generate_frequency_transition(sr, start_freq, end_freq, dur, transition_type) ==
    LET n == Trunc(RMul(R(sr), dur))
        t(k) == np_linspace(R(0), R(1), n, k)
    IN  [i \in 1 .. n |->
            LET k == i - 1
            IN  CASE transition_type = "exponential" ->
                       geometric(Max2R(Rat(1, 10), start_freq), end_freq, n, k)
                  [] transition_type = "logarithmic" ->
                       geometric(Max2R(R(1), start_freq), Max2R(R(1), end_freq), n, k)
                  [] transition_type = "quadratic" ->
                       RAdd(start_freq,
                            RMul(RSub(end_freq, start_freq),
                                 IF RLt(start_freq, end_freq)
                                 THEN RMul(t(k), t(k))
                                 ELSE RSub(R(1), RMul(RSub(R(1), t(k)),
                                                      RSub(R(1), t(k))))))
                  [] transition_type = "sigmoid" ->
                       RAdd(start_freq,
                            RMul(RSub(end_freq, start_freq),
                                 sigmoid(np_linspace(R(-6), R(6), n, k))))
                  [] OTHER -> np_linspace(start_freq, end_freq, n, k)]

\* the phase without the accumulation, in turns: freq_array[i] * t[i]
phase_closed_form(freq_array, sr, phase) ==
    [i \in 1 .. Len(freq_array) |-> RMul(freq_array[i], Rat(i - 1, sr))]

\* the accumulation loop, in turns (phase / (2 * pi)), given the part of the
\* phase array it has filled: phase = np.zeros(num_samples), then
\* phase[i] = phase[i-1] + 2 * np.pi * freq_array[i-1] / self.sample_rate
RECURSIVE accumulate_phase(_, _, _)
accumulate_phase(freq_array, sr, phase) ==
    IF Len(phase) >= Len(freq_array) THEN phase
    ELSE accumulate_phase(freq_array, sr,
             Append(phase,
                    IF phase = <<>> THEN R(0)
                    ELSE RAdd(phase[Len(phase)],
                              RMul(freq_array[Len(phase)], Rat(1, sr)))))

\* IsochronicToneGenerator.generate_advanced_isochronic (Backup): the segment
\* audio of num_samples samples
generate_advanced_isochronic(sr, carrier_type, modulation_type, start_freq, end_freq, base_freq, dur, volume, transition_type) ==
    LET n == Trunc(RMul(R(sr), dur))
        freq_array == IF start_freq = end_freq THEN <<>>
                      ELSE generate_frequency_transition(sr, start_freq, end_freq,
                                                         dur, transition_type)
    IN  IF n < 0 THEN Raise("ValueError")
        ELSE Ok([n |-> n,
                 carrier |-> [waveform |-> IF carrier_type \in WaveformType
                                           THEN carrier_type ELSE "sine",
                              frequency |-> base_freq],
                 modulation |-> IF modulation_type \in ModulationType
                                THEN modulation_type ELSE "square",
                 start_freq |-> start_freq,
                 freq_array |-> freq_array,
                 phase |-> accumulate_phase(freq_array, sr, <<>>),
                 volume |-> volume,
                 fade_samples |-> Min({chunk_size(sr), n \div 10})])

\* TimelineSegment
TimelineSegment(start_freq, end_freq, base_freq, dur, volume, transition_type) ==
    [start_freq |-> start_freq, end_freq |-> end_freq, base_freq |-> base_freq,
     duration |-> dur, volume |-> volume, transition_type |-> transition_type]

\* IsochronicPreset.get_total_duration
RECURSIVE get_total_duration(_)
get_total_duration(segments) ==
    IF segments = <<>> THEN R(0)
    ELSE RAdd(segments[1].duration, get_total_duration(Tail(segments)))

TransitionTypes ==
    {"linear", "exponential", "logarithmic", "quadratic", "sigmoid", "none"}

SegmentDurations == {Rat(1, 2), R(2)}

\* the segments a preset is made of: constant ones and sweeps of every kind
Segments ==
    {TimelineSegment(R(1), R(1), R(1), d, Rat(1, 2), "linear") :
        d \in SegmentDurations}
    \cup {TimelineSegment(R(1), R(2), R(1), R(2), Rat(1, 2), tt) :
            tt \in TransitionTypes}
    \cup {TimelineSegment(R(2), R(1), R(1), R(2), Rat(1, 2), "quadratic"),
          TimelineSegment(R(-1), R(1), R(1), R(2), Rat(1, 2), "linear")}

\* the sample rates of the preset generator
SegmentRates == {2, 3}

\* the two IsochronicPresetGenerator of the repository
Generators == {"current", "backup"}

\* IsochronicPreset.__init__ and IsochronicPresetGenerator.__init__
SegmentInit ==
    /\ impl \in Generators
    /\ lastOp = "init"
    /\ CurveIdle
    /\ NewGenerator
    /\ NoCall
    /\ NoWindow
    /\ NoThreads
    /\ preset = [segments |-> <<>>, carrier_type |-> "sine",
                 modulation_type |-> "square"]
    /\ rate \in SegmentRates
    /\ pc = "idle"
    /\ idx = 0
    /\ total = 0
    /\ chunks = <<>>
    /\ reads = <<>>
    /\ audio = NoResult
    /\ first = NoResult
    /\ pos = 0

\* IsochronicPreset.add_segment
AddSegment ==
    /\ pc = "idle"
    /\ Len(preset.segments) < MaxSegments
    /\ \E segment \in Segments :
          preset' = [preset EXCEPT !.segments = Append(@, segment)]
    /\ lastOp' = "add_segment"
    /\ UNCHANGED <<impl, rate, pc, idx, total, chunks, audio, pos, nonSegVars>>

\* the modulation type of the preset is chosen
SetModulationType ==
    /\ pc = "idle"
    /\ preset.segments = <<>>
    /\ preset.modulation_type = "square"
    /\ preset' = [preset EXCEPT !.modulation_type = "sine"]
    /\ lastOp' = "set_modulation_type"
    /\ UNCHANGED <<impl, rate, pc, idx, total, chunks, audio, pos, nonSegVars>>

\* generate_from_preset up to the segment loop
GenerateFromPreset ==
    /\ pc = "idle"
    /\ IF preset.segments = <<>>
       THEN /\ pc' = "done"
            /\ audio' = Ok(EmptyBuffer)
            /\ total' = 0
       ELSE /\ pc' = "loop"
            /\ audio' = NoResult
            /\ total' = Trunc(RMul(R(rate), get_total_duration(preset.segments)))
    /\ idx' = 1
    /\ pos' = 0
    /\ chunks' = <<>>
    /\ lastOp' = "generate_from_preset"
    /\ UNCHANGED <<impl, preset, rate, nonSegVars>>

\* one pass of the segment loop: the current tone generator has no
\* generate_advanced_isochronic, the Backup one generates the segment, which
\* is written at current_pos when it fits
RenderSegment ==
    /\ pc = "loop"
    /\ idx <= Len(preset.segments)
    /\ IF impl = "current"
       THEN /\ pc' = "raised"
            /\ audio' = Raise("AttributeError")
            /\ UNCHANGED <<idx, pos, chunks>>
       ELSE \E made \in {generate_advanced_isochronic(rate, preset.carrier_type,
                            preset.modulation_type,
                            preset.segments[idx].start_freq,
                            preset.segments[idx].end_freq,
                            preset.segments[idx].base_freq,
                            preset.segments[idx].duration,
                            preset.segments[idx].volume,
                            preset.segments[idx].transition_type)} :
               IF made.err # "none"
               THEN /\ pc' = "raised"
                    /\ audio' = made
                    /\ UNCHANGED <<idx, pos, chunks>>
               ELSE /\ idx' = idx + 1
                    /\ IF pos + made.val[1].n <= total
                       THEN /\ chunks' = Append(chunks,
                                            [start |-> pos,
                                             stop |-> pos + made.val[1].n,
                                             samples |-> made.val[1],
                                             segment |-> idx])
                            /\ pos' = pos + made.val[1].n
                       ELSE UNCHANGED <<chunks, pos>>
                    /\ UNCHANGED <<pc, audio>>
    /\ lastOp' = "segment"
    /\ UNCHANGED <<impl, preset, rate, total, nonSegVars>>

\* generate_from_preset after the loop (add_background is None)
FinishPreset ==
    /\ pc = "loop"
    /\ idx > Len(preset.segments)
    /\ pc' = "done"
    /\ audio' = Ok(Buffer(total, chunks, 0, FALSE))
    /\ lastOp' = "return"
    /\ UNCHANGED <<impl, preset, rate, idx, total, chunks, pos, nonSegVars>>

SegmentNext ==
    \/ AddSegment
    \/ SetModulationType
    \/ GenerateFromPreset
    \/ RenderSegment
    \/ FinishPreset

SegmentSpec == SegmentInit /\ [][SegmentNext]_vars

\* ------------------------------------------------------------------------
\* Background mix: IsochronicToneGenerator.mix_with_background (src/Backup)
\* ------------------------------------------------------------------------
RAbs(a) == <<Abs(a[1]), a[2]>>

\* np.max(np.abs(x)) of a non-empty array
PeakOf(x) == CHOOSE m \in {RAbs(x[i]) : i \in 1 .. Len(x)} :
                 \A i \in 1 .. Len(x) : RLe(RAbs(x[i]), m)

\* int(np.ceil(a / b)) of two positive lengths
CeilDiv(a, b) == (a + b - 1) \div b

\* np.tile(x, repeats)
RECURSIVE np_tile(_, _)
np_tile(x, repeats) == IF repeats <= 0 THEN <<>> ELSE x \o np_tile(x, repeats - 1)

\* IsochronicToneGenerator.mix_with_background
mix_with_background(isochronic_tone, background, background_volume) ==
    LET tone_length == Len(isochronic_tone)
        background_length == Len(background)
        fitted ==
            IF background_length < tone_length
            THEN SubSeq(np_tile(background, CeilDiv(tone_length, background_length)),
                        1, tone_length)
            ELSE SubSeq(background, 1, tone_length)
        mixed_audio == [i \in 1 .. tone_length |->
                           RAdd(isochronic_tone[i], RMul(fitted[i], background_volume))]
    IN  IF background_length < tone_length /\ background_length = 0
        THEN Raise("ZeroDivisionError")
        ELSE IF tone_length = 0 THEN Raise("ValueError")
        ELSE LET max_amplitude == PeakOf(mixed_audio)
             IN  IF RLt(R(1), max_amplitude)
                 THEN Ok([i \in 1 .. tone_length |->
                             RMul(mixed_audio[i], Rat(max_amplitude[2], max_amplitude[1]))])
                 ELSE Ok(mixed_audio)

\* the longest tone of a direct call
MaxTone == 3

RECURSIVE Arrays(_, _)
Arrays(S, n) ==
    IF n = 0 THEN {<<>>}
    ELSE LET shorter == Arrays(S, n - 1)
         IN  shorter \cup {Append(x, v) : x \in {y \in shorter : Len(y) = n - 1}, v \in S}

ToneSamples == {R(-1), R(0), Rat(1, 2)}

BackgroundSamples == {R(-2), R(1)}

BackgroundVolumes == {Rat(3, 10), R(1)}

MixInit ==
    /\ impl = "backup"
    /\ lastOp = "init"
    /\ CurveIdle
    /\ NewGenerator
    /\ RenderIdle
    /\ args \in [isochronic_tone : Arrays(ToneSamples, MaxTone),
                 background : Arrays(BackgroundSamples, MaxTone - 1),
                 background_volume : BackgroundVolumes]
    /\ ret = NoResult
    /\ NoWindow
    /\ NoThreads

\* a caller mixes a tone with a background
MixWithBackground ==
    /\ lastOp = "init"
    /\ ret' = mix_with_background(args.isochronic_tone, args.background,
                                  args.background_volume)
    /\ lastOp' = "mix_with_background"
    /\ UNCHANGED <<impl, args, curveVars, genVars, renderVars, segVars, uiVars, threadVars>>

MixNext == MixWithBackground

MixSpec == MixInit /\ [][MixNext]_vars

\* ------------------------------------------------------------------------
\* The end of generate_audio, sample by sample: fades and normalisation
\* ------------------------------------------------------------------------
\* the threshold and the target of the normalisation: 0.9
ClipLevel == Rat(9, 10)

\* output[:fade_samples] *= np.linspace(0, 1, fade_samples) and
\* output[-fade_samples:] *= np.linspace(1, 0, fade_samples)
apply_fades(output, fade_samples) ==
    LET n == Len(output)
    IN  [k \in 1 .. n |->
            LET faded_in == IF k <= fade_samples
                            THEN RMul(output[k],
                                      np_linspace(R(0), R(1), fade_samples, k - 1))
                            ELSE output[k]
            IN  IF k > n - fade_samples
                THEN RMul(faded_in,
                          np_linspace(R(1), R(0), fade_samples,
                                      k - (n - fade_samples) - 1))
                ELSE faded_in]

\* generate_audio after the chunk loop, given the output array the loop
\* filled: the fades, the normalisation (sine_editor has none) and the return
finish_audio(im, output, sr) ==
    LET fade_samples == Min({chunk_size(sr), Len(output) \div 10})
        faded == IF fade_samples > 0 THEN apply_fades(output, fade_samples)
                 ELSE output
    IN  IF im = "sine_editor" THEN Ok(faded)
        ELSE IF Len(faded) = 0 THEN Raise("ValueError")
        ELSE LET max_amp == PeakOf(faded)
             IN  IF RLt(ClipLevel, max_amp)
                 THEN Ok([k \in 1 .. Len(faded) |->
                             RMul(faded[k], RMul(ClipLevel,
                                                 Rat(max_amp[2], max_amp[1])))])
                 ELSE Ok(faded)

\* the largest magnitudes a sample of the loop's output has: below the
\* threshold, at it, a full-scale tone, a tone with the subsonic wave on top
Levels == {R(0), Rat(1, 2), ClipLevel, R(1), Rat(13, 10)}

\* the lengths of the output arrays finished
OutputLengths == {1, 3, 10, 20}

\* an output array of n samples that reaches level: constant, alternating in
\* sign, or one peak in the middle of a quieter signal
OutputArray(shape, level, n) ==
    [k \in 1 .. n |->
        IF shape = "constant" THEN level
        ELSE IF shape = "alternating"
        THEN (IF k % 2 = 1 THEN level ELSE RSub(R(0), level))
        ELSE IF k = (n + 1) \div 2 THEN level ELSE RMul(level, Rat(-1, 2))]

FinishInit ==
    /\ impl \in Impls
    /\ lastOp = "init"
    /\ CurveIdle
    /\ NewGenerator
    /\ RenderIdle
    /\ args \in [output : {OutputArray(shape, level, n) :
                              shape \in {"constant", "alternating", "peak"},
                              level \in Levels, n \in OutputLengths},
                 sample_rate : {100, 4 * TicksPerSecond}]
    /\ ret = NoResult
    /\ NoWindow
    /\ NoThreads

\* generate_audio runs from the end of its chunk loop to its return
FinishAudio ==
    /\ lastOp = "init"
    /\ ret' = finish_audio(impl, args.output, args.sample_rate)
    /\ lastOp' = "finish_audio"
    /\ UNCHANGED <<impl, args, curveVars, genVars, renderVars, segVars, uiVars, threadVars>>

FinishNext == FinishAudio

FinishSpec == FinishInit /\ [][FinishNext]_vars

\* ------------------------------------------------------------------------
\* The signals of the tone generator, sample by sample
\* ------------------------------------------------------------------------
\* Angles are held in turns (the argument of sin, square and sawtooth divided
\* by 2 pi), so that the phase of a sample is an exact rational.
FloorR(a) == a[1] \div a[2]

\* np.mod(x, 2 * pi), in turns: the fractional part
Frac(a) == RSub(a, R(FloorR(a)))

\* t[k] of t = np.linspace(0, duration, num_samples, endpoint=False), k from 0
time_at(k, duration, n) == RMul(duration, Rat(k, n))

\* np.sin on a half turn v in [0, 1] (of pi): the rational approximation
\* 16 v (1 - v) / (5 - 4 v (1 - v)), exact at 0, pi/6, pi/2, 5 pi/6 and pi and
\* within 0.002 of the sine between them
half_wave(v) ==
    LET w == RMul(v, RSub(R(1), v))
    IN  Rat(16 * w[1], 5 * w[2] - 4 * w[1])

\* np.sin(2 * pi * turns)
np_sin(turns) ==
    LET u == Frac(turns)
    IN  IF RLe(u, Rat(1, 2)) THEN half_wave(RMul(R(2), u))
        ELSE RSub(R(0), half_wave(RSub(RMul(R(2), u), R(1))))

\* the square wave that ignores its duty argument: 1 on the first half of
\* every period
square_half(turns, duty) == IF RLt(Frac(turns), Rat(1, 2)) THEN R(1) ELSE R(-1)

\* scipy.signal.square(2 * pi * turns, duty) for 0 <= duty <= 1: 1 where
\* mod(t, 2 pi) < duty * 2 pi, -1 elsewhere
scipy_square(turns, duty) == IF RLt(Frac(turns), duty) THEN R(1) ELSE R(-1)

\* scipy.signal.sawtooth(2 * pi * turns, width) for 0 <= width <= 1
scipy_sawtooth(turns, width) ==
    LET u == Frac(turns)
    IN  IF RLt(u, width)
        THEN RSub(RMul(RMul(R(2), u), Rat(width[2], width[1])), R(1))
        ELSE LET rest == RSub(R(1), width)
             IN  RMul(RSub(RAdd(width, R(1)), RMul(R(2), u)), Rat(rest[2], rest[1]))

\* np.exp(-y) for y >= 0: the rational approximation 1 / (1 + y), which is 1
\* at 0, decreasing and positive as the exponential is
exp_neg(y) == Rat(y[2], y[2] + y[1])

\* filtered_noise / np.max(np.abs(filtered_noise)): an array whose peak is 1;
\* two outcomes of the draw are kept
normalized_noise(draw, k) == Rat(((k * (2 * draw + 1)) % 7) - 3, 3)

\* the envelope as it is: x in place of 0.5 * (1 + x)
bipolar(x) == x

\* 0.5 * (1 + x)
unipolar(x) == RMul(Rat(1, 2), RAdd(R(1), x))

\* the default amplitude of generate_carrier: 1.0
DefaultAmplitude == R(1)

\* sample k (from 0) of the array generate_carrier returns
carrier_sample(waveform_type, frequency, duration, amplitude, draw, n, k) ==
    LET turns == RMul(frequency, time_at(k, duration, n))
    IN  IF waveform_type = "square" THEN RMul(amplitude, scipy_square(turns, Rat(1, 2)))
        ELSE IF waveform_type = "triangle"
        THEN RMul(amplitude, scipy_sawtooth(turns, Rat(1, 2)))
        ELSE IF waveform_type = "sawtooth"
        THEN RMul(amplitude, scipy_sawtooth(turns, R(1)))
        ELSE IF waveform_type = "noise"
        THEN RMul(amplitude, normalized_noise(draw, k))
        ELSE RMul(amplitude, np_sin(turns))

\* ramp_percent of generate_modulation: 10
RampPercent == 10

\* sample k (from 0) of the trapezoid envelope
trapezoid_sample(sr, frequency, n, k) ==
    LET period_samples == Trunc(RMul(R(sr), Rat(frequency[2], frequency[1])))
        ramp_samples == Trunc(Rat(period_samples * RampPercent, 100))
        i == (k \div period_samples) * period_samples
        end_idx == Min({i + period_samples, n})
        period_len == end_idx - i
        j == k - i
        half == period_len \div 2
    IN  IF period_len <= ramp_samples * 2
        THEN IF j < half THEN np_linspace(R(0), R(1), half, j)
             ELSE np_linspace(R(1), R(0), period_len - half, j - half)
        ELSE IF j < ramp_samples THEN np_linspace(R(0), R(1), ramp_samples, j)
        ELSE IF j < period_len - ramp_samples THEN R(1)
        ELSE np_linspace(R(1), R(0), ramp_samples, j - (period_len - ramp_samples))

\* sample k (from 0) of the gaussian envelope
gaussian_sample(sr, frequency, duty_cycle, k) ==
    LET period_samples == Trunc(RMul(R(sr), Rat(frequency[2], frequency[1])))
        i == (k \div period_samples) * period_samples
        center == i + period_samples \div 2
        sigma == RMul(R(period_samples), RMul(duty_cycle, Rat(1, 6)))
        x == RMul(R(k - center), Rat(sigma[2], sigma[1]))
    IN  exp_neg(RMul(Rat(1, 2), RMul(x, x)))

\* sample k (from 0) of the array generate_modulation returns
modulation_sample(sr, mod_type, frequency, duration, duty_cycle, n, k) ==
    LET turns == RMul(frequency, time_at(k, duration, n))
    IN  IF mod_type = "sine" THEN unipolar(np_sin(turns))
        ELSE IF mod_type = "trapezoid" THEN trapezoid_sample(sr, frequency, n, k)
        ELSE IF mod_type = "gaussian" THEN gaussian_sample(sr, frequency, duty_cycle, k)
        ELSE IF mod_type = "square" THEN unipolar(scipy_square(turns, duty_cycle))
        ELSE unipolar(scipy_square(turns, Rat(1, 2)))

\* the array generate_carrier returns, or what it raises
carrier_array(sr, waveform_type, frequency, duration, amplitude, draw) ==
    LET made == generate_carrier(sr, waveform_type, frequency, duration, amplitude, draw)
    IN  IF made.err # "none" THEN made
        ELSE Ok([k \in 1 .. made.val[1].n |->
                    carrier_sample(waveform_type, frequency, duration, amplitude,
                                   draw, made.val[1].n, k - 1)])

\* the array generate_modulation returns, or what it raises
modulation_array(sr, mod_type, frequency, duration, duty_cycle) ==
    LET made == generate_modulation(sr, mod_type, frequency, duration, duty_cycle)
    IN  IF made.err # "none" THEN made
        ELSE Ok([k \in 1 .. made.val[1].n |->
                    modulation_sample(sr, mod_type, frequency, duration,
                                      duty_cycle, made.val[1].n, k - 1)])

\* the array generate_tone_segment computes on a cache miss:
\* output = carrier * modulation * volume
tone_array(key, draw) ==
    LET carrier == carrier_array(key.sample_rate, key.carrier_type, key.carrier_freq,
                                 key.duration, CarrierAmplitude, draw)
        modulation == modulation_array(key.sample_rate, key.modulation_type,
                                       key.entrainment_freq, key.duration,
                                       key.duty_cycle)
    IN  IF carrier.err # "none" THEN carrier
        ELSE IF modulation.err # "none" THEN modulation
        ELSE Ok([k \in 1 .. Len(carrier.val[1]) |->
                    RMul(RMul(carrier.val[1][k], modulation.val[1][k]), key.volume)])

SignalRates == {20, 26, 90}

SignalDurations == {Rat(-1, 2), R(0), Rat(1, 10), Rat(3, 10), R(1), R(3)}

PulseFreqs == {R(0), Rat(1, 2), R(2), R(40)}

SignalVolumes == {R(0), Rat(1, 2), R(1)}

SignalDuties == {Rat(1, 4), Rat(1, 2)}

\* a kind that is no member of WaveformType or ModulationType
UnknownKind == "unknown"

\* the parameters of the direct calls
SignalKeys ==
    {get_cache_key(d, cf, ef, v, sr, ct, mt, dc) :
        d \in SignalDurations, cf \in CarrierFreqs, ef \in PulseFreqs,
        v \in SignalVolumes, sr \in SignalRates,
        ct \in WaveformType \cup {UnknownKind},
        mt \in ModulationType \cup {UnknownKind}, dc \in SignalDuties}

\* IsochronicToneGenerator(sample_rate) and the arguments of the call made
\* on it; np.random.normal is drawn from by the noise carrier only
SignalInit ==
    /\ impl = "current"
    /\ lastOp = "init"
    /\ CurveIdle
    /\ RenderIdle
    /\ cache = EmptyCache
    /\ result = NoResult
    /\ requested = {}
    /\ args \in {[key |-> key, draw |-> draw] :
                    key \in SignalKeys, draw \in 1 .. NoiseDraws}
    /\ args.key.carrier_type = "noise" \/ args.draw = 1
    /\ sampleRate = args.key.sample_rate
    /\ ret = NoResult
    /\ NoWindow
    /\ NoThreads

\* generator.generate_carrier(carrier_type, carrier_freq, duration), at the
\* generator's sample rate
GenerateCarrier ==
    /\ lastOp = "init"
    /\ ret' = carrier_array(sampleRate, args.key.carrier_type, args.key.carrier_freq,
                            args.key.duration, DefaultAmplitude, args.draw)
    /\ lastOp' = "generate_carrier"
    /\ UNCHANGED <<impl, args, curveVars, genVars, renderVars, segVars, uiVars, threadVars>>

\* generator.generate_modulation(modulation_type, entrainment_freq, duration,
\* duty_cycle)
GenerateModulation ==
    /\ lastOp = "init"
    /\ ret' = modulation_array(sampleRate, args.key.modulation_type,
                               args.key.entrainment_freq, args.key.duration,
                               args.key.duty_cycle)
    /\ lastOp' = "generate_modulation"
    /\ UNCHANGED <<impl, args, curveVars, genVars, renderVars, segVars, uiVars, threadVars>>

\* generator.generate_tone_segment(...) on the new generator, a cache miss;
\* generate_isochronic_tone is this call with a sine carrier and a square
\* modulation
GenerateToneArray ==
    /\ lastOp = "init"
    /\ \E made \in {generate_tone_segment(cache, sampleRate, args.key, args.draw)} :
        /\ cache' = made.cache
        /\ sampleRate' = made.sample_rate
        /\ result' = made.out
    /\ requested' = {args.key}
    /\ ret' = tone_array(args.key, args.draw)
    /\ lastOp' = "generate_tone_segment"
    /\ UNCHANGED <<impl, args, curveVars, renderVars, segVars, uiVars, threadVars>>

SignalNext ==
    \/ GenerateCarrier
    \/ GenerateModulation
    \/ GenerateToneArray

SignalSpec == SignalInit /\ [][SignalNext]_vars

\* ------------------------------------------------------------------------
\* Frequency sweeps: generate_frequency_transition called directly (Backup)
\* ------------------------------------------------------------------------
\* the numbers generate_frequency_transition takes the logarithm of, in the
\* order of the calls: np.log10 for the exponential kind, np.log for the
\* logarithmic kind
log_arguments(start_freq, end_freq, transition_type) ==
    IF transition_type = "exponential"
    THEN <<Max2R(Rat(1, 10), start_freq), end_freq>>
    ELSE IF transition_type = "logarithmic"
    THEN <<Max2R(R(1), start_freq), Max2R(R(1), end_freq)>>
    ELSE <<>>

\* the call with what it took the logarithm of; np.log10 of 0 is -inf and of
\* a negative number nan (a warning, no exception), and the array returned
\* then holds nan or 0 in place of frequencies: its samples are left out
frequency_transition(sr, start_freq, end_freq, dur, transition_type) ==
    LET logs == log_arguments(start_freq, end_freq, transition_type)
        finite == \A i \in 1 .. Len(logs) : RLt(R(0), logs[i])
    IN  [log_arguments |-> logs,
         finite |-> finite,
         freq_array |-> IF finite
                        THEN generate_frequency_transition(sr, start_freq, end_freq,
                                                           dur, transition_type)
                        ELSE <<>>]

\* the endpoint frequencies of the direct calls
EndpointFreqs == {R(-1), R(0), Rat(1, 2), R(2)}

TransitionInit ==
    /\ impl = "backup"
    /\ lastOp = "init"
    /\ CurveIdle
    /\ NewGenerator
    /\ RenderIdle
    /\ args \in [start_freq : EndpointFreqs, end_freq : EndpointFreqs,
                 duration : SegmentDurations, transition_type : TransitionTypes,
                 sample_rate : {Min(SegmentRates)}]
    /\ ret = NoResult
    /\ NoWindow
    /\ NoThreads

\* generator.generate_frequency_transition(start_freq, end_freq, duration,
\* transition_type)
GenerateFrequencyTransition ==
    /\ lastOp = "init"
    /\ ret' = Ok(frequency_transition(args.sample_rate, args.start_freq, args.end_freq,
                                      args.duration, args.transition_type))
    /\ lastOp' = "generate_frequency_transition"
    /\ UNCHANGED <<impl, args, curveVars, genVars, renderVars, segVars, uiVars, threadVars>>

TransitionNext == GenerateFrequencyTransition

TransitionSpec == TransitionInit /\ [][TransitionNext]_vars

\* ------------------------------------------------------------------------
\* Preset files of sine_editor_with_xml
\* ------------------------------------------------------------------------

\* the name of the preset load_from_file returns when loading failed
ErrorPresetName == "Error Preset"

CurveNames == {"entrainment_points", "volume_points", "base_freq_points"}

\* SinePreset.__init__(name): three curves with their default points
NewPreset(name) ==
    [name |-> name, entrainment_points |-> NewCurve("xml"),
     volume_points |-> NewCurve("xml"), base_freq_points |-> NewCurve("xml")]

\* SinePreset.save_to_file(filepath) of sine_editor_with_xml: the file's
\* extension and the JSON document written
write_preset(p, ext) ==
    [ext |-> ext, json |-> TRUE, name |-> p.name,
     entrainment_points |-> PointList(save_to_file(p.entrainment_points)),
     volume_points |-> PointList(save_to_file(p.volume_points)),
     base_freq_points |-> PointList(save_to_file(p.base_freq_points))]

\* a file that json.load refuses
Garbled(f) == [f EXCEPT !.json = FALSE]

\* preset_converter.validate_preset_file: (is_valid, format_type)
validate_preset_file(f) ==
    IF f.ext = ".sin"
    THEN <<f.json /\ \A k \in CurveNames : validate_sin(f[k]), "sin">>
    ELSE <<FALSE, "None">>

\* the format_type sine_editor_with_xml's load_from_file takes the JSON
\* branch for
json_format == "json"

\* SinePreset.load_from_file of sine_editor_with_xml (the files opened here
\* are not .xml files): every raise is caught, and with no preset built yet
\* the default preset named "Error Preset" is returned
xml_load_from_file(f) ==
    LET checked == validate_preset_file(f)
    IN  IF ~ checked[1] THEN NewPreset(ErrorPresetName)
        ELSE IF checked[2] = json_format
        THEN [name |-> f.name,
              entrainment_points |-> load_from_file(f.entrainment_points.items),
              volume_points |-> load_from_file(f.volume_points.items),
              base_freq_points |-> load_from_file(f.base_freq_points.items)]
        ELSE NewPreset(ErrorPresetName)

PresetNames == {"Alpha 10 Hz", ErrorPresetName}

\* curves an editor holds
EditedCurves ==
    {NewCurve("xml"),
     add_point(NewCurve("xml"), MaxTime, R(MaxValue)),
     add_point(add_point(<<>>, 0, R(MaxValue)), MaxTime, R(MinValue))}

FileExtensions == {".sin", ".json"}

\* a preset of sine_editor_with_xml, not yet saved
LoadInit ==
    /\ impl = "xml"
    /\ lastOp = "init"
    /\ CurveIdle
    /\ NewGenerator
    /\ RenderIdle
    /\ NoWindow
    /\ NoThreads
    /\ args \in [name : PresetNames, entrainment_points : EditedCurves,
                 volume_points : EditedCurves, base_freq_points : EditedCurves]
    /\ ret = NoResult

loadFrame == <<impl, points, args, genVars, renderVars, segVars, uiVars, threadVars>>

\* preset.save_to_file(filepath)
SavePresetFile ==
    /\ file = NoFile
    /\ \E ext \in FileExtensions : file' = <<write_preset(args, ext)>>
    /\ lastOp' = "save_to_file"
    /\ UNCHANGED <<ret, loadFrame>>

\* the written file is damaged on disk
DamageFile ==
    /\ file # NoFile
    /\ lastOp = "save_to_file"
    /\ file' = <<Garbled(file[1])>>
    /\ lastOp' = "damage"
    /\ UNCHANGED <<ret, loadFrame>>

\* SinePreset.load_from_file(filepath)
LoadPresetFile ==
    /\ file # NoFile
    /\ lastOp \in {"save_to_file", "damage"}
    /\ ret' = Ok(xml_load_from_file(file[1]))
    /\ lastOp' = "load_from_file"
    /\ UNCHANGED <<file, loadFrame>>

LoadNext ==
    \/ SavePresetFile
    \/ DamageFile
    \/ LoadPresetFile

LoadSpec == LoadInit /\ [][LoadNext]_vars

\* ------------------------------------------------------------------------
\* Two callers on one shared generator, statement by statement
\* ------------------------------------------------------------------------

Callers == {"a", "b"}

\* the parameter tuples the two callers use
SharedKeys ==
    {key \in Keys : /\ key.duration \in {R(-1), R(1)}
                    /\ key.entrainment_freq = R(2)
                    /\ key.carrier_type = "sine"
                    /\ key.modulation_type \in {"square", "trapezoid"}}

\* a caller outside generate_tone_segment, before its first call
Outside ==
    [pc |-> "idle", key |-> <<>>, carrier |-> NoResult, modulation |-> NoResult,
     overlapped |-> FALSE]

\* the lengths of carrier * modulation: numpy multiplies arrays of one
\* length, or broadcasts an array of one sample
Broadcasts(n, m) == n = m \/ n = 1 \/ m = 1

ThreadInit ==
    /\ impl = "integrated"
    /\ lastOp = "init"
    /\ CurveIdle
    /\ NewGenerator
    /\ NoCall
    /\ NoWindow
    /\ RenderIdle
    /\ threads = [c \in Callers |-> Outside]

threadFrame == <<impl, curveVars, renderVars, segVars, callVars, uiVars>>

\* caller c enters generate_tone_segment and builds cache_key; the call
\* overlaps another when the other caller is inside its own call
Enter(c) ==
    \E key \in SharedKeys :
        /\ threads[c].pc = "idle"
        /\ key \in requested \/ Cardinality(requested) < MaxKeys
        /\ requested' = requested \cup {key}
        /\ threads' = [o \in Callers |->
                          IF o = c
                          THEN [Outside EXCEPT !.pc = "lookup", !.key = key,
                                    !.overlapped = \E x \in Callers \ {c} : threads[x].pc # "idle"]
                          ELSE IF threads[o].pc # "idle"
                          THEN [threads[o] EXCEPT !.overlapped = TRUE]
                          ELSE threads[o]]
        /\ lastOp' = "enter"
        /\ UNCHANGED <<cache, sampleRate, result, threadFrame>>

\* if cache_key in self._cache: return self._cache[cache_key]
Lookup(c) ==
    /\ threads[c].pc = "lookup"
    /\ IF threads[c].key \in DOMAIN cache
       THEN /\ result' = Ok(cache[threads[c].key])
            /\ threads' = [threads EXCEPT ![c].pc = "idle"]
       ELSE /\ result' = result
            /\ threads' = [threads EXCEPT ![c].pc = "set_rate"]
    /\ lastOp' = "lookup"
    /\ UNCHANGED <<cache, sampleRate, requested, threadFrame>>

\* a generate_tone_segment that leaves self.sample_rate as it is
keep_sample_rate(c) ==
    /\ threads[c].pc = "set_rate"
    /\ threads' = [threads EXCEPT ![c].pc = "carrier"]
    /\ lastOp' = "set_rate"
    /\ UNCHANGED <<cache, sampleRate, result, requested, threadFrame>>

\* self.sample_rate = sample_rate
SetSampleRate(c) ==
    /\ threads[c].pc = "set_rate"
    /\ sampleRate' = threads[c].key.sample_rate
    /\ threads' = [threads EXCEPT ![c].pc = "carrier"]
    /\ lastOp' = "set_rate"
    /\ UNCHANGED <<cache, result, requested, threadFrame>>

\* carrier = self.generate_carrier(...), which reads self.sample_rate
Carrier(c) ==
    /\ threads[c].pc = "carrier"
    /\ \E carrier \in {generate_carrier(sampleRate, threads[c].key.carrier_type, threads[c].key.carrier_freq, threads[c].key.duration, CarrierAmplitude, 1)} :
        IF carrier.err # "none"
        THEN /\ result' = carrier
             /\ threads' = [threads EXCEPT ![c].pc = "idle"]
        ELSE /\ result' = result
             /\ threads' = [threads EXCEPT ![c].pc = "modulation", ![c].carrier = carrier]
    /\ lastOp' = "carrier"
    /\ UNCHANGED <<cache, sampleRate, requested, threadFrame>>

\* modulation = self.generate_modulation(...), which reads self.sample_rate
Modulation(c) ==
    /\ threads[c].pc = "modulation"
    /\ \E modulation \in {generate_modulation(sampleRate, threads[c].key.modulation_type, threads[c].key.entrainment_freq, threads[c].key.duration, threads[c].key.duty_cycle)} :
        IF modulation.err # "none"
        THEN /\ result' = modulation
             /\ threads' = [threads EXCEPT ![c].pc = "idle"]
        ELSE /\ result' = result
             /\ threads' = [threads EXCEPT ![c].pc = "store", ![c].modulation = modulation]
    /\ lastOp' = "modulation"
    /\ UNCHANGED <<cache, sampleRate, requested, threadFrame>>

\* output = carrier * modulation * volume; self._cache[cache_key] = output;
\* return output
Store(c) ==
    /\ threads[c].pc = "store"
    /\ \E output \in {[carrier |-> threads[c].carrier.val[1], modulation |-> threads[c].modulation.val[1], volume |-> threads[c].key.volume]} :
        IF Broadcasts(output.carrier.n, output.modulation.n)
        THEN /\ cache' = [k \in DOMAIN cache \cup {threads[c].key} |->
                             IF k = threads[c].key THEN output ELSE cache[k]]
             /\ result' = Ok(output)
        ELSE /\ cache' = cache
             /\ result' = Raise("ValueError")
    /\ threads' = [threads EXCEPT ![c].pc = "idle"]
    /\ lastOp' = "store"
    /\ UNCHANGED <<sampleRate, requested, threadFrame>>

ThreadNext ==
    \E c \in Callers :
        \/ Enter(c)
        \/ Lookup(c)
        \/ SetSampleRate(c)
        \/ Carrier(c)
        \/ Modulation(c)
        \/ Store(c)

ThreadSpec == ThreadInit /\ [][ThreadNext]_vars

\* ------------------------------------------------------------------------
\* The integrated render of a preset with constant curves, sample by sample
\* ------------------------------------------------------------------------

\* the first n samples of a buffer
Prefix(buffer, n) == SubSeq(buffer, 1, Min({n, Len(buffer)}))

RECURSIVE render_from(_, _, _, _, _, _)
\* the chunk loop of generate_audio from sample i on: every chunk is one
\* generate_tone_segment call of duration len(chunk_t) / sample_rate
render_from(key, draw, i, n, size, output) ==
    IF i >= n THEN Ok(output)
    ELSE LET end_idx == Min({i + size, n})
             chunk_len == end_idx - i
             chunk_output == tone_array([key EXCEPT !.duration = Rat(chunk_len, key.sample_rate)], draw)
         IN  IF chunk_output.err # "none" THEN chunk_output
             ELSE IF Len(chunk_output.val[1]) < chunk_len THEN Raise("ValueError")
             ELSE render_from(key, draw, end_idx, n, size,
                              output \o Prefix(chunk_output.val[1], chunk_len))

\* generate_audio up to the end of its chunk loop, for a preset whose curves
\* hold the values of key at every time and whose last point is at
\* key.duration; range() refuses a chunk size of zero
render_chunks(key, draw) ==
    IF RLe(key.duration, R(0)) THEN Ok(<<>>)
    ELSE LET n == Trunc(RMul(R(key.sample_rate), key.duration))
         IN  IF chunk_size(key.sample_rate) = 0 THEN Raise("ValueError")
             ELSE render_from(key, draw, 0, n, chunk_size(key.sample_rate), <<>>)

ConstantRates == {50, 200}

ConstantDurations == {Rat(1, 40), Rat(1, 10)}

ConstantPulses == {R(10), R(20), R(40)}

\* the constant values of the three curves, and the preset's kinds
ConstantKeys ==
    {get_cache_key(d, cf, ef, v, sr, ct, mt, Rat(1, 2)) :
        d \in ConstantDurations, cf \in CarrierFreqs, ef \in ConstantPulses,
        v \in SignalVolumes, sr \in ConstantRates,
        ct \in WaveformType, mt \in ModulationType}

\* a preset with constant curves and the sample rate it is rendered at
ConstantInit ==
    /\ impl = "integrated"
    /\ lastOp = "init"
    /\ CurveIdle
    /\ NewGenerator
    /\ RenderIdle
    /\ NoWindow
    /\ NoThreads
    /\ args \in {[key |-> key, draw |-> draw] :
                    key \in ConstantKeys, draw \in 1 .. NoiseDraws}
    /\ args.key.carrier_type = "noise" \/ args.draw = 1
    /\ ret = NoResult

\* preset.generate_audio(sample_rate), to the end of the chunk loop
RenderChunks ==
    /\ lastOp = "init"
    /\ ret' = render_chunks(args.key, args.draw)
    /\ lastOp' = "generate_audio"
    /\ UNCHANGED <<impl, args, curveVars, genVars, renderVars, segVars, uiVars, threadVars>>

ConstantNext == RenderChunks

ConstantSpec == ConstantInit /\ [][ConstantNext]_vars

\* ------------------------------------------------------------------------
\* The main window's undo and redo
\* ------------------------------------------------------------------------

\* the deepest undo stack explored
MaxUndo == 2

\* ModernMainWindow.__init__ and setup_ui: the settings of a new window
NewSettings ==
    [video_path |-> "", audio_path |-> "", tone_freq |-> 10, visual_freq |-> 10,
     carrier_freq |-> 100, tone_volume |-> 50, flicker_amp |-> 10,
     use_visual |-> TRUE, use_audio |-> TRUE, sync_freq |-> TRUE,
     mix_original |-> TRUE, original_volume |-> 30, batch_files |-> <<>>]

\* the slot of tone_volume_slider.valueChanged
update_tone_volume_label(s) ==
    IF s.sync_freq THEN [s EXCEPT !.visual_freq = s.tone_freq] ELSE s

\* the slot of sync_freq_check.stateChanged
sync_frequencies(s, state) ==
    IF state THEN [s EXCEPT !.visual_freq = s.tone_freq] ELSE s

\* widget.setValue(value) or widget.setChecked(value): the widget emits its
\* change signal only when the value changes, and the connected slot runs
\* before the call returns
setValue(s, widget, value) ==
    IF s[widget] = value THEN s
    ELSE LET changed == [s EXCEPT ![widget] = value]
         IN  CASE widget = "tone_volume" -> update_tone_volume_label(changed)
               [] widget = "sync_freq" -> sync_frequencies(changed, value)
               [] OTHER -> changed

\* restore_state(state), on the settings s
restore_state(s, state) ==
    IF DOMAIN state = {} THEN s
    ELSE LET s1 == [s EXCEPT !.video_path = state.video_path,
                             !.audio_path = state.audio_path]
             s2 == setValue(s1, "tone_freq", state.tone_freq)
             s3 == setValue(s2, "visual_freq", state.visual_freq)
             s4 == setValue(s3, "carrier_freq", state.carrier_freq)
             s5 == setValue(s4, "tone_volume", state.tone_volume)
             s6 == setValue(s5, "flicker_amp", state.flicker_amp)
             s7 == setValue(s6, "use_visual", state.use_visual)
             s8 == setValue(s7, "use_audio", state.use_audio)
             s9 == setValue(s8, "sync_freq", state.sync_freq)
             s10 == setValue(s9, "mix_original", state.mix_original)
             s11 == setValue(s10, "original_volume", state.original_volume)
         IN  [s11 EXCEPT !.batch_files = state.batch_files]

\* the values the user gives to the widgets
WidgetValues ==
    [visual_freq |-> {10, 15}, tone_volume |-> {50, 60}, sync_freq |-> BOOLEAN]

VideoPaths == {"/test/video.mp4"}

\* a new ModernMainWindow
UndoInit ==
    /\ impl = "current"
    /\ lastOp = "init"
    /\ CurveIdle
    /\ NewGenerator
    /\ RenderIdle
    /\ NoCall
    /\ NoThreads
    /\ settings = NewSettings
    /\ undo_stack = <<>>
    /\ redo_stack = <<>>
    /\ undo_btn = FALSE
    /\ redo_btn = FALSE

undoFrame == <<impl, curveVars, genVars, renderVars, segVars, callVars, threadVars>>

\* the user edits one widget
EditWidget ==
    /\ \E widget \in DOMAIN WidgetValues : \E value \in WidgetValues[widget] :
        settings' = setValue(settings, widget, value)
    /\ lastOp' = "edit"
    /\ UNCHANGED <<undo_stack, redo_stack, undo_btn, redo_btn, undoFrame>>

\* choose_video, with a file chosen in the dialog
ChooseVideo ==
    /\ \E file_path \in VideoPaths :
        settings' = [settings EXCEPT !.video_path = file_path]
    /\ lastOp' = "choose_video"
    /\ UNCHANGED <<undo_stack, redo_stack, undo_btn, redo_btn, undoFrame>>

\* a save_state_for_undo that disabled the Redo button and kept the redo stack
save_keeping_redo ==
    /\ Len(undo_stack) < MaxUndo
    /\ undo_stack' = Append(undo_stack, settings)
    /\ undo_btn' = TRUE
    /\ redo_btn' = FALSE
    /\ lastOp' = "save_state_for_undo"
    /\ UNCHANGED <<settings, redo_stack, undoFrame>>

\* save_state_for_undo()
SaveStateForUndo ==
    /\ Len(undo_stack) < MaxUndo
    /\ undo_stack' = Append(undo_stack, settings)
    /\ undo_btn' = TRUE
    /\ redo_stack' = <<>>
    /\ redo_btn' = FALSE
    /\ lastOp' = "save_state_for_undo"
    /\ UNCHANGED <<settings, undoFrame>>

\* undo_action(): does nothing on an empty undo stack
UndoAction ==
    /\ IF undo_stack # <<>>
       THEN /\ redo_stack' = Append(redo_stack, settings)
            /\ redo_btn' = TRUE
            /\ undo_stack' = SubSeq(undo_stack, 1, Len(undo_stack) - 1)
            /\ settings' = restore_state(settings, undo_stack[Len(undo_stack)])
            /\ undo_btn' = (undo_stack' # <<>>)
       ELSE UNCHANGED uiVars
    /\ lastOp' = "undo_action"
    /\ UNCHANGED undoFrame

\* redo_action(): does nothing on an empty redo stack
RedoAction ==
    /\ IF redo_stack # <<>>
       THEN /\ undo_stack' = Append(undo_stack, settings)
            /\ undo_btn' = TRUE
            /\ redo_stack' = SubSeq(redo_stack, 1, Len(redo_stack) - 1)
            /\ settings' = restore_state(settings, redo_stack[Len(redo_stack)])
            /\ redo_btn' = (redo_stack' # <<>>)
       ELSE UNCHANGED uiVars
    /\ lastOp' = "redo_action"
    /\ UNCHANGED undoFrame

UndoNext ==
    \/ EditWidget
    \/ ChooseVideo
    \/ SaveStateForUndo
    \/ UndoAction
    \/ RedoAction

UndoSpec == UndoInit /\ [][UndoNext]_vars

\* ------------------------------------------------------------------------
\* Claims about the segment cache
\* ------------------------------------------------------------------------
\* C1: after any sequence of generate_tone_segment calls on one generator the
\* number of cache entries is the number of distinct parameter tuples
\* requested so far.
C1_CacheCount == Cardinality(DOMAIN cache) = Cardinality(requested)

\* the part of C1 the code keeps: the cache holds exactly the requested tuples
\* whose generation returns, a call that returns gives the buffer the cache
\* holds for its tuple, and no call removes or replaces an entry
C1_ReturningCalls ==
    /\ DOMAIN cache = {k \in requested : tone_segment(k, 1).err = "none"}
    /\ \A k \in DOMAIN cache : \E draw \in 1 .. NoiseDraws :
          Ok(cache[k]) = tone_segment(k, draw)

C1_NoEviction ==
    [][/\ \A k \in DOMAIN cache : k \in DOMAIN cache' /\ cache'[k] = cache[k]
       /\ result'.err = "none" =>
             \E k \in DOMAIN cache' : result' = Ok(cache'[k])]_vars

\* the key of the cache entry a returned buffer is
KeyOf(buffer) == {k \in DOMAIN cache : Ok(cache[k]) = buffer}

\* C11: a buffer stored in the segment cache is immutable: whatever a caller
\* does to a buffer generate_tone_segment returned, a later call with the same
\* parameter tuple returns the samples as they were originally rendered, so
\* every call that returns gives a rendering of its parameter tuple.
C11_Immutable ==
    (lastOp = "generate_tone_segment" /\ result.err = "none") =>
        \E k \in KeyOf(result) : \E draw \in 1 .. NoiseDraws :
            result = tone_segment(k, draw)

\* without a caller that writes to a returned buffer the cache keeps the
\* samples as rendered
C11_Untouched ==
    \A k \in DOMAIN cache : \E draw \in 1 .. NoiseDraws :
        Ok(cache[k]) = tone_segment(k, draw)

\* C12: the segment cache is the only mutable state of a generator:
\* generate_tone_segment, on a cache hit and on a cache miss alike, leaves
\* every other field of the generator (sample_rate) unchanged.
C12_OnlyCache ==
    [][lastOp' = "generate_tone_segment" => sampleRate' = sampleRate]_vars

\* the part of C12 the code keeps: a cache hit changes no field at all, the
\* cache included
C12_HitFrame ==
    [][(lastOp' = "generate_tone_segment" /\ requested' = requested
            /\ result'.err = "none")
         => (sampleRate' = sampleRate /\ cache' = cache)]_vars

\* ------------------------------------------------------------------------
\* Claims about the background mix
\* ------------------------------------------------------------------------
\* sample i of the sum before any scaling, the background repeated from its
\* start
RawMix(i) ==
    RAdd(args.isochronic_tone[i],
         RMul(args.background[((i - 1) % Len(args.background)) + 1],
              args.background_volume))

MixPostcondition ==
    /\ ret.err = "none"
    /\ Len(ret.val[1]) = Len(args.isochronic_tone)
    /\ \A i \in 1 .. Len(ret.val[1]) :
          /\ RLe(RAbs(ret.val[1][i]), R(1))
          /\ RLe(RAbs(ret.val[1][i]), RAbs(RawMix(i)))

\* C14: for every background strictly shorter than the tone, whatever the two
\* lengths are, mix_with_background completes and returns exactly len(tone)
\* samples; the output peak is at most 1.0 and the mix is never scaled up.
C14_ShorterBackground ==
    (lastOp = "mix_with_background"
        /\ Len(args.background) < Len(args.isochronic_tone))
      => MixPostcondition

\* the part of C14 the code keeps: a shorter background that has samples
C14_NonEmptyBackground ==
    (lastOp = "mix_with_background"
        /\ Len(args.background) < Len(args.isochronic_tone)
        /\ Len(args.background) > 0)
      => MixPostcondition

\* ------------------------------------------------------------------------
\* Claims about the signals of the tone generator
\* ------------------------------------------------------------------------
Between(lo, x, hi) == RLe(lo, x) /\ RLe(x, hi)

\* C16: every sample of the envelope generate_modulation returns lies in
\* [0, 1], for each of the four kinds, for every pulse frequency in
\* [0.5, 40] Hz and every duration in [0.1, 600] s.
C16_EnvelopeRange ==
    (/\ lastOp = "generate_modulation"
     /\ ret.err = "none"
     /\ Between(Rat(1, 2), args.key.entrainment_freq, R(40))
     /\ Between(Rat(1, 10), args.key.duration, R(600)))
      => \A k \in 1 .. Len(ret.val[1]) : Between(R(0), ret.val[1][k], R(1))

\* a sine envelope that goes through 0 and through 1, and an envelope of each
\* of the other kinds with samples, have been returned
C16_Witness ==
    /\ lastOp = "generate_modulation"
    /\ ret.err = "none"
    /\ args.key.modulation_type = "sine"
    /\ Between(Rat(1, 10), args.key.duration, R(600))
    /\ \E k \in 1 .. Len(ret.val[1]) : ret.val[1][k] = R(0)
    /\ \E k \in 1 .. Len(ret.val[1]) : ret.val[1][k] = R(1)

\* the time of sample k falls in the first fraction d of a period 1 / f
InPulse(k) ==
    LET f == args.key.entrainment_freq
        period == Rat(f[2], f[1])
        t == time_at(k - 1, args.key.duration, Len(ret.val[1]))
        into == RSub(t, RMul(period, R(FloorR(RMul(t, f)))))
    IN  RLt(into, RMul(args.key.duty_cycle, period))

\* C17: for square modulation with pulse frequency f and duty cycle d the
\* envelope takes only the values 0 and 1, and is 1 during the first fraction
\* d of every period 1 / f and 0 during the rest of the period.
C17_SquarePulses ==
    (/\ lastOp = "generate_modulation"
     /\ ret.err = "none"
     /\ args.key.modulation_type = "square"
     /\ RLt(R(0), args.key.entrainment_freq))
      => \A k \in 1 .. Len(ret.val[1]) :
            ret.val[1][k] = IF InPulse(k) THEN R(1) ELSE R(0)

\* a square envelope of duty cycle 1/4 with pulses and gaps has been returned
C17_Witness ==
    /\ lastOp = "generate_modulation"
    /\ ret.err = "none"
    /\ args.key.modulation_type = "square"
    /\ args.key.duty_cycle = Rat(1, 4)
    /\ \E k \in 1 .. Len(ret.val[1]) : ret.val[1][k] = R(1)
    /\ \E k \in 1 .. Len(ret.val[1]) : ret.val[1][k] = R(0) /\ ~ InPulse(k)

\* C18: for every volume in [0, 1] and every carrier and modulation kind, no
\* sample of the buffer generate_tone_segment (and generate_isochronic_tone)
\* returns exceeds the volume in absolute value.
C18_VolumeCeiling ==
    (/\ lastOp = "generate_tone_segment"
     /\ ret.err = "none"
     /\ Between(R(0), args.key.volume, R(1)))
      => \A k \in 1 .. Len(ret.val[1]) : RLe(RAbs(ret.val[1][k]), args.key.volume)

\* a buffer at volume 0.5 whose loudest sample is the carrier's peak, 0.8 of
\* the volume, has been returned
C18_Witness ==
    /\ lastOp = "generate_tone_segment"
    /\ ret.err = "none"
    /\ args.key.volume = Rat(1, 2)
    /\ Len(ret.val[1]) > 0
    /\ PeakOf(ret.val[1]) = RMul(CarrierAmplitude, args.key.volume)

\* Python's round(x) of a rational: to the nearest integer, a tie to the even
\* one
Round(a) ==
    LET below == FloorR(a)
        rest == RSub(a, R(below))
    IN  IF RLt(rest, Rat(1, 2)) THEN below
        ELSE IF RLt(Rat(1, 2), rest) THEN below + 1
        ELSE IF below % 2 = 0 THEN below ELSE below + 1

\* C19: for every sample rate and every duration > 0, generate_carrier and
\* generate_modulation return a buffer of exactly round(sample_rate * duration)
\* samples, and both return the same length.
C19_RoundedLength ==
    (/\ lastOp \in {"generate_carrier", "generate_modulation"}
     /\ ret.err = "none"
     /\ RLt(R(0), args.key.duration))
      => Len(ret.val[1]) = Round(RMul(R(sampleRate), args.key.duration))

\* the part of C19 the code keeps: both return int(sample_rate * duration)
\* samples, so the same length
C19_TruncatedLength ==
    (/\ lastOp \in {"generate_carrier", "generate_modulation"}
     /\ ret.err = "none"
     /\ RLt(R(0), args.key.duration))
      => Len(ret.val[1]) = Trunc(RMul(R(sampleRate), args.key.duration))

\* C20: a zero or negative duration yields an empty buffer rather than an
\* error, for generate_carrier and generate_modulation with every kind and
\* for generate_tone_segment.
C20_EmptyBuffer ==
    (lastOp # "init" /\ RLe(args.key.duration, R(0)))
      => (ret.err = "none" /\ ret.val[1] = <<>>)

\* the part of C20 the code keeps: a zero duration gives an empty buffer
\* unless the carrier is noise or the envelope has no period of one sample
\* or more
C20_ZeroDuration ==
    (/\ lastOp # "init"
     /\ args.key.duration = R(0)
     /\ lastOp # "generate_modulation" => args.key.carrier_type # "noise"
     /\ lastOp # "generate_carrier" =>
           (args.key.modulation_type \in {"trapezoid", "gaussian"}
               => /\ RLt(R(0), args.key.entrainment_freq)
                  /\ RLe(args.key.entrainment_freq, R(sampleRate))))
      => (ret.err = "none" /\ ret.val[1] = <<>>)

\* C21: a frequency is validated to be > 0 before it is used as a divisor:
\* generate_modulation with the trapezoid or gaussian kind never computes the
\* period in samples from a frequency that is zero or negative, so the
\* division sample_rate / frequency never fails.
C21_FrequencyValidated ==
    (/\ lastOp \in {"generate_modulation", "generate_tone_segment"}
     /\ args.key.modulation_type \in {"trapezoid", "gaussian"}
     /\ RLe(args.key.entrainment_freq, R(0)))
      => ret.err # "ZeroDivisionError"

\* the part of C21 the code keeps: the kinds that do not divide by the
\* frequency return an envelope at frequency 0
C21_NoDivisor ==
    (/\ lastOp = "generate_modulation"
     /\ args.key.modulation_type \in {"square", "sine"}
     /\ RLe(R(0), args.key.duration))
      => ret.err = "none"

\* generate_carrier with an unknown waveform kind returns what it returns for
\* sine
CarrierFallback ==
    (lastOp = "generate_carrier" /\ args.key.carrier_type \notin WaveformType)
      => ret = carrier_array(sampleRate, "sine", args.key.carrier_freq,
                             args.key.duration, DefaultAmplitude, args.draw)

\* generate_modulation with an unknown modulation kind returns what it
\* returns for square with the same frequency, duration and duty cycle
ModulationFallback ==
    (lastOp = "generate_modulation" /\ args.key.modulation_type \notin ModulationType)
      => ret = modulation_array(sampleRate, "square", args.key.entrainment_freq,
                                args.key.duration, args.key.duty_cycle)

\* C22: unknown kinds degrade to the documented default without raising:
\* generate_carrier with an unknown waveform kind returns exactly what it
\* returns for sine, and generate_modulation with an unknown modulation kind
\* exactly what it returns for square, given the same remaining arguments
\* (frequency, duration, amplitude, duty cycle).
C22_Fallbacks == CarrierFallback /\ ModulationFallback

\* the part of C22 the code keeps: the carrier falls back to sine, and the
\* envelope to the square of duty cycle 0.5 whatever duty cycle was passed
C22_DefaultDuty ==
    /\ CarrierFallback
    /\ (lastOp = "generate_modulation" /\ args.key.modulation_type \notin ModulationType)
         => ret = modulation_array(sampleRate, "square", args.key.entrainment_freq,
                                   args.key.duration, Rat(1, 2))

\* ------------------------------------------------------------------------
\* Claims about the frequency sweeps
\* ------------------------------------------------------------------------
\* every logarithm of the call was taken of a number at or above floor
LogsAtLeast(floor) ==
    \A i \in 1 .. Len(ret.val[1].log_arguments) :
        RLe(floor, ret.val[1].log_arguments[i])

\* C23: generate_frequency_transition never takes the logarithm of zero or of
\* a negative number: for the exponential kind every endpoint frequency is
\* floored to 0.1 Hz and for the logarithmic kind to 1.0 Hz before the
\* logarithm is taken, for any start and end frequency including values <= 0.
C23_FlooredLogarithms ==
    lastOp = "generate_frequency_transition" =>
        /\ args.transition_type = "exponential" => LogsAtLeast(Rat(1, 10))
        /\ args.transition_type = "logarithmic" => LogsAtLeast(R(1))

\* the part of C23 the code keeps: the logarithmic kind floors both
\* endpoints, the exponential kind its start frequency
C23_FlooredExceptEnd ==
    lastOp = "generate_frequency_transition" =>
        /\ args.transition_type = "exponential" =>
              RLe(Rat(1, 10), ret.val[1].log_arguments[1])
        /\ args.transition_type = "logarithmic" =>
              (LogsAtLeast(R(1)) /\ ret.val[1].finite)

\* ------------------------------------------------------------------------
\* Claims about the preset files of sine_editor_with_xml
\* ------------------------------------------------------------------------

\* the file is a .sin file as save_to_file wrote it
WrittenBySave == file = <<write_preset(args, ".sin")>>

\* C30: load_from_file, given a .sin file written by save_to_file, returns a
\* preset with the saved name and the saved control points of all three
\* curves; the preset named "Error Preset" is returned only when the file is
\* invalid or cannot be read
C30_LoadsSaved ==
    lastOp = "load_from_file" =>
        /\ WrittenBySave => ret = Ok(args)
        /\ (ret.val[1].name = ErrorPresetName /\ args.name # ErrorPresetName)
              => ~ validate_preset_file(file[1])[1]

\* C30, what the code does instead: whatever file is given, load_from_file
\* returns the default preset named "Error Preset"
C30_AlwaysErrorPreset ==
    lastOp = "load_from_file" => ret = Ok(NewPreset(ErrorPresetName))

\* ------------------------------------------------------------------------
\* Claims about two callers on one generator
\* ------------------------------------------------------------------------

\* the buffer has the length of a render at the sample rate of key
RenderedAtRateOf(key, buffer) ==
    /\ buffer.carrier.n = Trunc(RMul(R(key.sample_rate), key.duration))
    /\ buffer.modulation.n = Trunc(RMul(R(key.sample_rate), key.duration))

C26_WholeTone ==
    lastOp = "generate_audio" => ret = tone_array(args.key, args.draw)

\* C26, what the render does instead: every chunk is the start of a tone, so
\* with a square or sine envelope the render repeats the first chunk of the
\* whole-duration tone
C26_RepeatsFirstChunk ==
    (lastOp = "generate_audio" /\ ret.err = "none"
        /\ args.key.modulation_type \in {"square", "sine"}
        /\ tone_array(args.key, args.draw).err = "none")
      => \A k \in 1 .. Len(ret.val[1]) :
            ret.val[1][k] = tone_array(args.key, args.draw).val[1][((k - 1) % chunk_size(args.key.sample_rate)) + 1]

\* ------------------------------------------------------------------------
\* Claims about undo and redo
\* ------------------------------------------------------------------------

\* the settings restore_state is to set back
UndoTop == undo_stack[Len(undo_stack)]

\* C24: undoing sets every captured setting back to exactly the value that
\* was captured, whatever the settings were changed to in between
C24_RestoresCaptured ==
    [][lastOp' = "undo_action" /\ undo_stack # <<>> => settings' = UndoTop]_vars

\* C24, the part that holds: every captured setting other than the visual
\* frequency is set back to the captured value
C24_RestoresOthers ==
    [][lastOp' = "undo_action" /\ undo_stack # <<>>
        => [settings' EXCEPT !.visual_freq = 0] = [UndoTop EXCEPT !.visual_freq = 0]]_vars

\* C25: the Undo button is enabled exactly when undo_stack is non-empty, the
\* Redo button exactly when redo_stack is non-empty, and the redo stack is
\* empty right after every save_state_for_undo
C25_Buttons ==
    /\ undo_btn <=> undo_stack # <<>>
    /\ redo_btn <=> redo_stack # <<>>
    /\ lastOp = "save_state_for_undo" => redo_stack = <<>>

\* C25 happens: a save after an undo and an edit, which empties the redo
\* stack the undo had filled and leaves two entries to undo
C25_Witness ==
    /\ lastOp = "save_state_for_undo"
    /\ Len(undo_stack) = 2
    /\ undo_stack[1] # undo_stack[2]
    /\ undo_btn
    /\ ~redo_btn

\* ------------------------------------------------------------------------
\* Claims about the chunked render
\* ------------------------------------------------------------------------
\* C5: two renders of the same preset at the same sample rate that both
\* return give the same buffer, sample for sample, whatever the carrier kind.
C5_Determinism == (first.err = "none" /\ audio.err = "none") => audio = first

\* the part of C5 the code keeps: a preset whose carrier is not noise renders
\* to the same buffer both times
C5_WithoutNoise ==
    (preset.carrier_type # "noise" /\ first.err = "none" /\ audio.err = "none")
        => audio = first

\* the get_value_at_time calls made by the chunk that starts at sample i
ReadsOf(i) == SelectSeq(reads, LAMBDA r : r.chunk = i)

\* the time, in ticks, of sample i of the render
TimeOfSample(i) == (i * total) \div num_samples(rate, total)

\* C6: every chunk of the render reads each of the three curves exactly once,
\* at the time of the chunk's first sample, and its samples are generated from
\* the three values read there; the only other reads are the three of a chunk
\* whose generation raised.
C6_ChunkReads ==
    /\ \A c \in 1 .. Len(chunks) :
          LET t0 == TimeOfSample(chunks[c].start)
              mine == ReadsOf(chunks[c].start)
          IN  /\ Len(mine) = 3
              /\ \A name \in {"entrainment", "volume", "base_freq"} :
                    Cardinality({k \in 1 .. Len(mine) : mine[k].curve = name}) = 1
              /\ \A k \in 1 .. Len(mine) : mine[k].time = t0
              /\ chunks[c].samples.carrier.frequency
                    = get_value_at_time(preset.base_freq_curve, t0)
              /\ chunks[c].samples.modulation.frequency
                    = get_value_at_time(preset.entrainment_curve, t0)
              /\ chunks[c].samples.volume
                    = IF impl = "xml"
                      THEN RMul(get_value_at_time(preset.volume_curve, t0), ToneVolume)
                      ELSE get_value_at_time(preset.volume_curve, t0)
    /\ \A k \in 1 .. Len(reads) :
          \/ \E c \in 1 .. Len(chunks) : chunks[c].start = reads[k].chunk
          \/ reads[k].chunk = idx /\ Len(ReadsOf(idx)) = 3

\* a render has written two chunks whose curve values differ
C6_Witness ==
    /\ Len(chunks) >= 2
    /\ chunks[1].samples.modulation.frequency
          # chunks[2].samples.modulation.frequency

\* C7: for every sample rate and duration the chunk loop ends without an
\* error, and the buffer returned has num_samples samples, each written by
\* exactly one chunk (shown for the sine carrier).
C7_ChunkLoop ==
    preset.carrier_type = "sine" =>
        /\ pc # "raised"
        /\ (pc = "done" /\ total > 0) =>
              /\ audio.val[1].n = num_samples(rate, total)
              /\ \A k \in 0 .. (num_samples(rate, total) - 1) :
                    Cardinality({c \in 1 .. Len(audio.val[1].chunks) :
                                    /\ audio.val[1].chunks[c].start <= k
                                    /\ k < audio.val[1].chunks[c].stop}) = 1

\* the part of C7 the code keeps: a render that returns has written every
\* sample exactly once
C7_WritesOnce ==
    (pc = "done" /\ total > 0) =>
        /\ audio.val[1].n = num_samples(rate, total)
        /\ \A k \in 0 .. (num_samples(rate, total) - 1) :
              Cardinality({c \in 1 .. Len(audio.val[1].chunks) :
                              /\ audio.val[1].chunks[c].start <= k
                              /\ k < audio.val[1].chunks[c].stop}) = 1

\* the time of the last control point of a curve
LastTime(pts) == pts[Len(pts)].time

\* C8: the duration a render uses is the maximum of the three curves'
\* durations and the minimum duration.
C8_Duration ==
    pc # "idle" =>
        total = Max({LastTime(preset.entrainment_curve),
                     LastTime(preset.volume_curve),
                     LastTime(preset.base_freq_curve),
                     DEFAULT_DURATION})

\* the part of C8 the code keeps: in integrated_isoflicker and
\* sine_editor_with_xml the duration has the minimum
C8_DurationWithMinimum ==
    (pc # "idle" /\ impl # "sine_editor") =>
        total = Max({LastTime(preset.entrainment_curve),
                     LastTime(preset.volume_curve),
                     LastTime(preset.base_freq_curve),
                     DEFAULT_DURATION})

\* the output array after the fades alone
Faded ==
    LET fade_samples == Min({chunk_size(args.sample_rate), Len(args.output) \div 10})
    IN  IF fade_samples > 0 THEN apply_fades(args.output, fade_samples)
        ELSE args.output

\* the peak of the returned buffer is at most 0.9; a buffer whose peak after
\* the fades exceeds 0.9 is returned scaled by 0.9 / peak, any other unscaled
PeakNormalized ==
    /\ ret.err = "none"
    /\ RLe(PeakOf(ret.val[1]), ClipLevel)
    /\ LET peak == PeakOf(Faded)
       IN  IF RLt(ClipLevel, peak)
           THEN /\ PeakOf(ret.val[1]) = ClipLevel
                /\ \A k \in 1 .. Len(Faded) :
                      RMul(ret.val[1][k], peak) = RMul(Faded[k], ClipLevel)
           ELSE ret.val[1] = Faded

\* C15: after the chunked render of any preset (subsonic component included)
\* the peak of the returned buffer is at most 0.9: a buffer whose peak exceeds
\* 0.9 is scaled by 0.9 / peak, one whose peak is at most 0.9 is returned
\* unscaled.
C15_PeakNormalized == lastOp = "finish_audio" => PeakNormalized

\* the part of C15 the code keeps: the generate_audio of integrated_isoflicker
\* and of sine_editor_with_xml
C15_NormalizingEditors ==
    (lastOp = "finish_audio" /\ impl # "sine_editor") => PeakNormalized

\* ------------------------------------------------------------------------
\* Claims about segment presets
\* ------------------------------------------------------------------------
\* the number of samples of segment k: int(sample_rate * duration)
SegmentLength(k) == Trunc(RMul(R(rate), preset.segments[k].duration))

\* the total sample count of segments 1 .. k
RECURSIVE SamplesBefore(_)
SamplesBefore(k) == IF k = 0 THEN 0 ELSE SamplesBefore(k - 1) + SegmentLength(k)

\* the buffer holds every segment of the preset, in list order, segment k
\* starting at the total sample count of the segments before it
Concatenated ==
    /\ audio.err = "none"
    /\ Len(audio.val[1].chunks) = Len(preset.segments)
    /\ \A k \in 1 .. Len(preset.segments) :
          /\ audio.val[1].chunks[k].segment = k
          /\ audio.val[1].chunks[k].start = SamplesBefore(k - 1)
          /\ audio.val[1].chunks[k].stop = SamplesBefore(k)
          /\ audio.val[1].chunks[k].samples.n = SegmentLength(k)
          /\ audio.val[1].chunks[k].stop <= audio.val[1].n

\* C9: generate_from_preset on a preset with n >= 1 segments returns a buffer
\* in which the segments are concatenated end-to-end in list order, none
\* skipped and no two overlapping.
C9_Concatenation ==
    (pc \in {"done", "raised"} /\ Len(preset.segments) >= 1) => Concatenated

\* the part of C9 the code keeps: the generate_from_preset of Backup, whose
\* tone generator has generate_advanced_isochronic
C9_BackupConcatenation ==
    (impl = "backup" /\ pc \in {"done", "raised"} /\ Len(preset.segments) >= 1)
        => Concatenated

\* the largest frequency of a frequency array
MaxFreq(f) == CHOOSE x \in {f[i] : i \in 1 .. Len(f)} :
                  \A i \in 1 .. Len(f) : RLe(f[i], x)

\* the phase of a sweep, in turns, is the running sum of its frequency array
RunningSum(f, phase) ==
    /\ Len(phase) = Len(f)
    /\ Len(phase) >= 1 => phase[1] = R(0)
    /\ \A i \in 2 .. Len(phase) :
          /\ phase[i] = RAdd(phase[i - 1], RMul(f[i - 1], Rat(1, rate)))
          /\ (\A j \in 1 .. Len(f) : RLe(R(0), f[j])) =>
                /\ RLe(phase[i - 1], phase[i])
                /\ RLe(RSub(phase[i], phase[i - 1]),
                       RMul(MaxFreq(f), Rat(1, rate)))

\* C10: in every segment sweep, of every transition kind, the modulation
\* phase is phase[0] = 0, phase[i] = phase[i-1] + 2*pi*f[i-1]/sample_rate; for
\* non-negative frequencies it never decreases and two consecutive samples
\* differ by at most 2*pi*max(f)/sample_rate (phases in turns).
C10_PhaseAccumulation ==
    \A c \in 1 .. Len(chunks) :
        preset.segments[chunks[c].segment].start_freq
            # preset.segments[chunks[c].segment].end_freq
        => RunningSum(chunks[c].samples.freq_array, chunks[c].samples.phase)

\* a sweep of four samples with a rising frequency has been generated
C10_Witness ==
    \E c \in 1 .. Len(chunks) :
        /\ Len(chunks[c].samples.phase) >= 4
        /\ RLt(chunks[c].samples.freq_array[1], chunks[c].samples.freq_array[2])
        /\ RLt(chunks[c].samples.freq_array[2], chunks[c].samples.freq_array[3])
        /\ RLt(R(0), chunks[c].samples.phase[2])

\* ------------------------------------------------------------------------
\* Claims about the automation curve
\* ------------------------------------------------------------------------
Sorted(pts) == \A i, j \in 1 .. Len(pts) : i < j => pts[i].time <= pts[j].time

DistinctTimes(pts) == \A i, j \in 1 .. Len(pts) : i # j => pts[i].time # pts[j].time

\* C2: in every reachable state of a curve, after any sequence of add_point,
\* remove_point, set_duration / extend_duration and editor drags, the control
\* points are sorted ascending by time and no two points have the same time.
C2_SortedDistinct == Sorted(points) /\ DistinctTimes(points)

\* the part of C2 the code keeps: the points are sorted in every state
C2_SortedOnly == Sorted(points)

\* the piecewise-linear function through the control points, at time t
Reference(pts, t) ==
    IF t <= pts[1].time THEN pts[1].value
    ELSE IF t >= pts[Len(pts)].time THEN pts[Len(pts)].value
    ELSE LET lo == Max({i \in 1 .. Len(pts) : pts[i].time <= t})
             hi == Min({i \in 1 .. Len(pts) : pts[i].time >= t})
         IN  IF pts[lo].time = pts[hi].time THEN pts[hi].value
             ELSE Rat(pts[lo].value[1] * pts[hi].value[2] * (pts[hi].time - t)
                        + pts[hi].value[1] * pts[lo].value[2] * (t - pts[lo].time),
                      pts[lo].value[2] * pts[hi].value[2]
                        * (pts[hi].time - pts[lo].time))

ProbeTimes == (0 .. (MaxTime + 1)) \cup {DEFAULT_DURATION - 1, DEFAULT_DURATION, DEFAULT_DURATION + 1}

\* C13: every automation curve holds at least one control point in every
\* reachable state: after construction and after any later sequence of
\* add_point, remove_point, extend_duration and loading of points from a
\* preset file.
C13_AtLeastOnePoint == Len(points) >= 1

\* SinePreset.set_duration(d) acts on a curve: Curve's last point is moved in
\* integrated_isoflicker, TrackCurve.extend_duration runs in
\* sine_editor_with_xml
SetDurationTo(d) ==
    \/ lastOp' = "set_duration" /\ points' = set_duration(points, d)
    \/ lastOp' = "extend_duration" /\ points' = extend_duration(points, d)

\* C28: after set_duration(d) with d > 0 the duration of a curve, the time of
\* its last control point, equals d, for any control points the curve held
\* before the call
C28_DurationSet ==
    [][\A d \in Times : (d > 0 /\ SetDurationTo(d)) => get_duration(points', impl) = d]_vars

\* C28, the part that holds: a duration at least 0.01 s after time 0 and
\* after every control point becomes the time of the last point
C28_LongerDuration ==
    [][\A d \in Times :
          (/\ SetDurationTo(d)
           /\ ~ Near(0, d)
           /\ \A i \in 1 .. Len(points) : points[i].time < d /\ ~ Near(points[i].time, d))
            => get_duration(points', impl) = d]_vars

\* extend_duration(d) acts on a curve that lasts longer than d
Shortened(d) ==
    /\ lastOp' = "extend_duration"
    /\ points # <<>>
    /\ d < points[Len(points)].time
    /\ points' = extend_duration(points, d)

\* C29: extend_duration(d) with d shorter than the curve's duration removes
\* the points after d and adds a point at d whose value is the value the
\* curve had at d before the call, so get_value_at_time(t) is unchanged for
\* every t <= d
C29_ShorterKeepsValues ==
    [][\A d \in Times :
          Shortened(d)
            => /\ \A i \in 1 .. Len(points') : points'[i].time <= d
               /\ \E i \in 1 .. Len(points') :
                    /\ points'[i].time = d
                    /\ points'[i].value = get_value_at_time(points, d)
               /\ \A t \in 0 .. d :
                    get_value_at_time(points', t) = get_value_at_time(points, t)]_vars

\* C29, the part that holds: the points after d are removed, the points up
\* to d are kept, and get_value_at_time(t) is unchanged up to the last of them
C29_KeptPoints ==
    [][\A d \in Times :
          Shortened(d)
            => /\ \A i \in 1 .. Len(points') : points'[i].time <= d
               /\ \A i \in 1 .. Len(points) :
                    points[i].time <= d => points'[i] = points[i]
               /\ \A t \in 0 .. d :
                    (\E i \in 1 .. Len(points) : t <= points[i].time /\ points[i].time <= d)
                      => get_value_at_time(points', t) = get_value_at_time(points, t)]_vars

\* C3: for every curve with at least one point and every time t,
\* get_value_at_time(t) is the piecewise-linear function through the points,
\* and at the time of any control point it is exactly that point's value.
C3_Interpolation ==
    points # <<>> =>
        /\ \A t \in ProbeTimes :
              get_value_at_time(points, t) = Reference(points, t)
        /\ \A i \in 1 .. Len(points) :
              get_value_at_time(points, points[i].time) = points[i].value

\* C4: the curve load_from_file rebuilds from the points save_to_file wrote
\* has, at every control-point time of the saved curve, the value the saved
\* curve has there.
C4_RoundTrip ==
    [][lastOp' = "load_from_file" =>
          \A i \in 1 .. Len(file[1]) :
              get_value_at_time(points', file[1][i].time)
                  = get_value_at_time(file[1], file[1][i].time)]_vars

====
